---- MODULE Spec2Model ----
(***************************************************************************)
(* Model of the row-streaming engine: ExternalSort (driver generator plus  *)
(* helper process over a duplex Pipe), the sort-merge Join with its        *)
(* Joiner strategies, and Reduce with its Reducers.                        *)
(*                                                                         *)
(* A row is a Python dict.  Dicts keep insertion order, so a row is a      *)
(* sequence of [c |-> column, v |-> value] entries with distinct columns.  *)
(***************************************************************************)
EXTENDS Integers, Sequences, FiniteSets, TLC

(* ---------------------------- bounds ----------------------------------- *)
\* longest upstream stream fed to a sort
MaxSortRows == 2
\* rows a Pipe direction buffers before send() blocks
PipeCap == 1
\* longest input stream on each side of a join
MaxJoinRows == 2
\* longest input stream of a reduce
MaxReduceRows == 3
MaxTopN == 3

(* ---------------------------- rows (dict) ------------------------------ *)
Cols(row) == {row[i].c : i \in DOMAIN row}

HasCol(row, col) == \E i \in DOMAIN row : row[i].c = col

\* row[col]; callers guard with HasCol (a missing column is a KeyError)
Get(row, col) == row[CHOOSE i \in DOMAIN row : row[i].c = col].v

\* row[col] = val: overwrite in place or append at the end
Put(row, col, val) ==
    IF HasCol(row, col)
    THEN [i \in DOMAIN row |-> IF row[i].c = col THEN [c |-> col, v |-> val] ELSE row[i]]
    ELSE Append(row, [c |-> col, v |-> val])

SeqsUpTo(S, n) == UNION {[1..m -> S] : m \in 0..n}

Reverse(s) == [i \in 1..Len(s) |-> s[Len(s) + 1 - i]]

\* tuple comparison of Python: lexicographic, a proper prefix is smaller
RECURSIVE TupleLess(_, _)
TupleLess(t1, t2) ==
    IF t2 = <<>> THEN FALSE
    ELSE IF t1 = <<>> THEN TRUE
    ELSE IF Head(t1) < Head(t2) THEN TRUE
    ELSE IF Head(t1) > Head(t2) THEN FALSE
    ELSE TupleLess(Tail(t1), Tail(t2))

\* every column of keys is present in the row (no KeyError on row[key])
KeysPresent(row, keys) == \A i \in DOMAIN keys : HasCol(row, keys[i])

\* tuple(row[key] for key in keys)
KeyTuple(row, keys) == [i \in DOMAIN keys |-> Get(row, keys[i])]

(* ======================================================================= *)
(*                              ExternalSort                               *)
(* ======================================================================= *)
SortRow(a, b) == << [c |-> "a", v |-> a], [c |-> "b", v |-> b] >>

\* rows a sort may be fed; the last one lacks column "a"
SortRowValues ==
    { SortRow(2, 1), SortRow(1, 1), SortRow(1, 2), << [c |-> "b", v |-> 1] >> }

SortKeyLists == { <<>>, <<"a">>, <<"b", "a">> }

\* itemgetter(*keys)(row) raises: no key at all (TypeError when the getter
\* is built) or a column missing from a row (KeyError during the sort)
SortRaises(rs, keys) ==
    \/ keys = <<>>
    \/ \E i \in DOMAIN rs : ~KeysPresent(rs[i], keys)

\* itemgetter(*keys)(row); for one key Python compares the bare value, which
\* orders exactly as the 1-tuple does
ItemGetter(row, keys) == KeyTuple(row, keys)

\* insert row behind every element whose key is not greater (stable)
RECURSIVE InsertStable(_, _, _)
InsertStable(sorted, row, keys) ==
    IF sorted = <<>> THEN <<row>>
    ELSE IF TupleLess(ItemGetter(row, keys), ItemGetter(Head(sorted), keys))
         THEN <<row>> \o sorted
         ELSE <<Head(sorted)>> \o InsertStable(Tail(sorted), row, keys)

RECURSIVE SortAscending(_, _)
SortAscending(rs, keys) ==
    IF rs = <<>> THEN <<>>
    ELSE InsertStable(SortAscending(SubSeq(rs, 1, Len(rs) - 1), keys), rs[Len(rs)], keys)

\* rows.sort(key=..., reverse=reverse): list.sort reverses the list, sorts it
\* ascending and stable, and reverses the result again
ListSort(rs, keys, reverse) ==
    IF reverse THEN Reverse(SortAscending(Reverse(rs), keys)) ELSE SortAscending(rs, keys)

RowMsg(row) == [tag |-> "row", row |-> row]
NoneMsg == [tag |-> "none", row |-> <<>>]

VARIABLES
    rows,              \* the upstream stream handed to ExternalSort.__call__
    upFail,            \* the upstream raises on its upFail-th pull (0: never)
    keys, reverse,     \* ExternalSort.keys, ExternalSort.reverse
    plan,              \* consumer: [drain |-> BOOLEAN, stopAfter |-> Nat]
    dpc,               \* position of the driver generator
    active,            \* the consumer is inside next(): the generator runs
    fed,               \* rows pulled from upstream so far
    row_count_before, row_count_after,
    to_remote,         \* Pipe direction local_endpoint -> remote_endpoint
    to_local,          \* Pipe direction remote_endpoint -> local_endpoint
    hpc,               \* position of the helper process (do_sort)
    helper_rows,       \* do_sort's list rows
    sent,              \* rows do_sort has sent back
    joined,            \* process.join() has returned
    out                \* rows delivered to the consumer

sortVars == <<rows, upFail, keys, reverse, plan, dpc, active, fed, row_count_before,
              row_count_after, to_remote, to_local, hpc, helper_rows, sent, joined, out>>

VARIABLES
    first_table,       \* rows: the left input stream of Join.__call__
    second_table,      \* args[0]: the right input stream
    join_keys,         \* Join.keys
    joiner,            \* Join.joiner: "inner", "outer", "left" or "right"
    jpc,               \* position of the Join generator
    gi_first,          \* index of the left group held (0: none fetched yet)
    gi_second,         \* index of the right group held
    joiner_calls,      \* history: one entry per invocation of the joiner
    join_out,          \* rows emitted by the join
    a_suffix,          \* Joiner._a_suffix
    b_suffix,          \* Joiner._b_suffix
    pass,              \* 1: the join as given; 2: the same join, sides exchanged
    first_pass_out     \* what pass 1 emitted, kept for comparison in pass 2

joinVars == <<first_table, second_table, join_keys, joiner, jpc, gi_first, gi_second,
              joiner_calls, join_out, a_suffix, b_suffix, pass, first_pass_out>>

VARIABLES
    reduce_rows,       \* rows: the input stream of Reduce.__call__
    reduce_keys,       \* Reduce.keys
    reducer,           \* Reduce.reducer: [kind |-> ..., column |-> ..., n |-> ...]
    rpc,               \* position of the Reduce generator
    gi_reduce,         \* groups handed to the reducer so far
    reducer_calls,     \* history: one entry per invocation of the reducer
    reduce_out         \* rows emitted by the reduce

reduceVars == <<reduce_rows, reduce_keys, reducer, rpc, gi_reduce, reducer_calls, reduce_out>>

VARIABLES
    nodes,             \* the Graph objects built so far: _operation and _input
    gens,              \* the generator objects the run calls have created
    runs               \* one entry per run call: its node, kwargs and result

graphVars == <<nodes, gens, runs>>

VARIABLES
    map_rows,          \* rows: the input stream of Map.__call__
    mapper,            \* Map.mapper: its class and constructor arguments
    mpc,               \* position of the Map generator
    map_pos,           \* input rows pulled so far
    map_buf,           \* rows the running mapper call has yet to yield
    map_out            \* rows delivered to the consumer

mapVars == <<map_rows, mapper, mpc, map_pos, map_buf, map_out>>

VARIABLES
    call_joiner,       \* the Joiner called: "inner", "outer", "left" or "right"
    group_a,           \* rows_a: the left group of the key
    group_b,           \* rows_b: the right group of the key
    cpc,               \* position of the joiner's generator
    pulled_a,          \* rows of the left group pulled from the left input
    pulled_b,          \* rows of the right group pulled from the right input
    at_outer,          \* index of the outer loop's row
    at_inner,          \* index of the inner loop's row
    call_out           \* history: one entry per row the joiner yielded

callVars == <<call_joiner, group_a, group_b, cpc, pulled_a, pulled_b,
              at_outer, at_inner, call_out>>

vars == <<sortVars, joinVars, reduceVars, graphVars, mapVars, callVars>>

\* Joiner.__init__ defaults
suffix_a == "_1"
suffix_b == "_2"

\* the operators a specification does not exercise stay as constructed
SortIdle ==
    /\ rows = <<>> /\ upFail = 0 /\ keys = <<>> /\ reverse = FALSE
    /\ plan = [drain |-> TRUE, stopAfter |-> 0]
    /\ dpc = "unstarted" /\ active = FALSE /\ fed = 0
    /\ row_count_before = 0 /\ row_count_after = 0
    /\ to_remote = <<>> /\ to_local = <<>>
    /\ hpc = "none" /\ helper_rows = <<>> /\ sent = 0 /\ joined = FALSE /\ out = <<>>

JoinIdle ==
    /\ first_table = <<>> /\ second_table = <<>> /\ join_keys = <<>>
    /\ joiner = "inner" /\ jpc = "unstarted" /\ gi_first = 0 /\ gi_second = 0
    /\ joiner_calls = <<>> /\ join_out = <<>>
    /\ a_suffix = suffix_a /\ b_suffix = suffix_b /\ pass = 1 /\ first_pass_out = <<>>

ReduceIdle ==
    /\ reduce_rows = <<>> /\ reduce_keys = <<>>
    /\ reducer = [kind |-> "FirstReducer", column |-> "", n |-> 0]
    /\ rpc = "unstarted" /\ gi_reduce = 0 /\ reducer_calls = <<>> /\ reduce_out = <<>>

GraphIdle == nodes = <<>> /\ gens = <<>> /\ runs = <<>>

MapIdle ==
    /\ map_rows = <<>>
    /\ mapper = [kind |-> "DummyMapper", column |-> "", new_column |-> "",
                 columns |-> <<>>, separator |-> <<>>]
    /\ mpc = "unstarted" /\ map_pos = 0 /\ map_buf = <<>> /\ map_out = <<>>

CallIdle ==
    /\ call_joiner = "inner" /\ group_a = <<>> /\ group_b = <<>>
    /\ cpc = "unstarted" /\ pulled_a = 0 /\ pulled_b = 0
    /\ at_outer = 0 /\ at_inner = 0 /\ call_out = <<>>

SortInit ==
    /\ rows \in SeqsUpTo(SortRowValues, MaxSortRows)
    /\ upFail \in 0..(Len(rows) + 1)
    /\ keys \in SortKeyLists
    /\ reverse \in BOOLEAN
    /\ plan \in [drain : BOOLEAN, stopAfter : 0..MaxSortRows]
    /\ plan.drain => plan.stopAfter = 0
    /\ ~plan.drain => plan.stopAfter <= Len(rows)
    \* the upstream error strikes before the first row is yielded
    /\ upFail # 0 => plan.drain
    /\ dpc = "unstarted"
    /\ active = FALSE
    /\ fed = 0
    /\ row_count_before = 0
    /\ row_count_after = 0
    /\ to_remote = <<>>
    /\ to_local = <<>>
    /\ hpc = "none"
    /\ helper_rows = <<>>
    /\ sent = 0
    /\ joined = FALSE
    /\ out = <<>>

(* ------------------------------ consumer ------------------------------- *)
Suspended == ~active /\ dpc \in {"unstarted", "yielded"}

WantsMore == plan.drain \/ Len(out) < plan.stopAfter

\* next(stream)
ConsumerPull ==
    /\ Suspended /\ WantsMore
    /\ active' = TRUE
    /\ UNCHANGED <<joinVars, reduceVars, graphVars, mapVars, callVars>>
    /\ UNCHANGED <<rows, upFail, keys, reverse, plan, dpc, fed, row_count_before,
                   row_count_after, to_remote, to_local, hpc, helper_rows, sent, joined, out>>

\* the consumer drops the stream: GeneratorExit is raised at the yield (or the
\* body never runs); __call__ has no try/finally, so nothing else happens
ConsumerAbandon ==
    /\ Suspended /\ ~WantsMore
    /\ dpc' = "closed"
    /\ UNCHANGED <<joinVars, reduceVars, graphVars, mapVars, callVars>>
    /\ UNCHANGED <<rows, upFail, keys, reverse, plan, active, fed, row_count_before,
                   row_count_after, to_remote, to_local, hpc, helper_rows, sent, joined, out>>

(* ------------------------------- driver -------------------------------- *)
\* the helper process has ended: do_sort returned, raised, or lost its peer
HelperTerminated == hpc \in {"exited", "raised", "peer_closed"}

\* Pipe(); Process(target=do_sort, ...); process.start(); row_count_before = 0
DriverStart ==
    /\ active /\ dpc = "unstarted"
    /\ hpc' = "recv"
    /\ dpc' = "feed"
    /\ row_count_before' = 0
    /\ UNCHANGED <<joinVars, reduceVars, graphVars, mapVars, callVars>>
    /\ UNCHANGED <<rows, upFail, keys, reverse, plan, active, fed, row_count_after,
                   to_remote, to_local, helper_rows, sent, joined, out>>

\* for row in rows: local_endpoint.send(row); row_count_before += 1
DriverFeed ==
    /\ active /\ dpc = "feed"
    /\ fed < Len(rows) /\ upFail # fed + 1
    /\ Len(to_remote) < PipeCap
    /\ to_remote' = Append(to_remote, RowMsg(rows[fed + 1]))
    /\ fed' = fed + 1
    /\ row_count_before' = row_count_before + 1
    /\ UNCHANGED <<joinVars, reduceVars, graphVars, mapVars, callVars>>
    /\ UNCHANGED <<rows, upFail, keys, reverse, plan, dpc, active, row_count_after,
                   to_local, hpc, helper_rows, sent, joined, out>>

\* the upstream raises inside "for row in rows": the exception leaves the
\* generator; no handler, no finally
DriverUpstreamRaises ==
    /\ active /\ dpc = "feed"
    /\ upFail = fed + 1
    /\ dpc' = "raised"
    /\ active' = FALSE
    /\ UNCHANGED <<joinVars, reduceVars, graphVars, mapVars, callVars>>
    /\ UNCHANGED <<rows, upFail, keys, reverse, plan, fed, row_count_before,
                   row_count_after, to_remote, to_local, hpc, helper_rows, sent, joined, out>>

\* local_endpoint.send(None); row_count_after = 0
DriverSendNone ==
    /\ active /\ dpc = "feed"
    /\ fed = Len(rows) /\ upFail = 0
    /\ Len(to_remote) < PipeCap
    /\ to_remote' = Append(to_remote, NoneMsg)
    /\ row_count_after' = 0
    /\ dpc' = "recv"
    /\ UNCHANGED <<joinVars, reduceVars, graphVars, mapVars, callVars>>
    /\ UNCHANGED <<rows, upFail, keys, reverse, plan, active, fed, row_count_before,
                   to_local, hpc, helper_rows, sent, joined, out>>

\* local_endpoint.recv() returns a row: yield it
DriverYield ==
    /\ active /\ dpc = "recv"
    /\ to_local # <<>> /\ Head(to_local).tag = "row"
    /\ out' = Append(out, Head(to_local).row)
    /\ to_local' = Tail(to_local)
    /\ dpc' = "yielded"
    /\ active' = FALSE
    /\ UNCHANGED <<joinVars, reduceVars, graphVars, mapVars, callVars>>
    /\ UNCHANGED <<rows, upFail, keys, reverse, plan, fed, row_count_before,
                   row_count_after, to_remote, hpc, helper_rows, sent, joined>>

\* resumed after the yield: row_count_after += 1, back to recv()
DriverResume ==
    /\ active /\ dpc = "yielded"
    /\ row_count_after' = row_count_after + 1
    /\ dpc' = "recv"
    /\ UNCHANGED <<joinVars, reduceVars, graphVars, mapVars, callVars>>
    /\ UNCHANGED <<rows, upFail, keys, reverse, plan, active, fed, row_count_before,
                   to_remote, to_local, hpc, helper_rows, sent, joined, out>>

\* local_endpoint.recv() returns None: break
DriverRecvNone ==
    /\ active /\ dpc = "recv"
    /\ to_local # <<>> /\ Head(to_local).tag = "none"
    /\ to_local' = Tail(to_local)
    /\ dpc' = "assert"
    /\ UNCHANGED <<joinVars, reduceVars, graphVars, mapVars, callVars>>
    /\ UNCHANGED <<rows, upFail, keys, reverse, plan, active, fed, row_count_before,
                   row_count_after, to_remote, hpc, helper_rows, sent, joined, out>>

\* assert row_count_before == row_count_after
DriverAssert ==
    /\ active /\ dpc = "assert"
    /\ IF row_count_before = row_count_after
       THEN dpc' = "join" /\ active' = active
       ELSE dpc' = "assertion_error" /\ active' = FALSE
    /\ UNCHANGED <<joinVars, reduceVars, graphVars, mapVars, callVars>>
    /\ UNCHANGED <<rows, upFail, keys, reverse, plan, fed, row_count_before,
                   row_count_after, to_remote, to_local, hpc, helper_rows, sent, joined, out>>

\* process.join() returns once the helper has exited; then StopIteration
DriverJoin ==
    /\ active /\ dpc = "join"
    /\ HelperTerminated
    /\ joined' = TRUE
    /\ dpc' = "done"
    /\ active' = FALSE
    /\ UNCHANGED <<joinVars, reduceVars, graphVars, mapVars, callVars>>
    /\ UNCHANGED <<rows, upFail, keys, reverse, plan, fed, row_count_before,
                   row_count_after, to_remote, to_local, hpc, helper_rows, sent, out>>

(* ------------------------------- helper -------------------------------- *)
\* a helper that keeps only the row received last
HelperRecvRow_KeepsLast ==
    /\ hpc = "recv"
    /\ to_remote # <<>> /\ Head(to_remote).tag = "row"
    /\ helper_rows' = <<Head(to_remote).row>>
    /\ to_remote' = Tail(to_remote)
    /\ UNCHANGED <<joinVars, reduceVars, graphVars, mapVars, callVars>>
    /\ UNCHANGED <<rows, upFail, keys, reverse, plan, dpc, active, fed, row_count_before,
                   row_count_after, to_local, hpc, sent, joined, out>>

\* row = endpoint.recv(); rows.append(row)
HelperRecvRow ==
    /\ hpc = "recv"
    /\ to_remote # <<>> /\ Head(to_remote).tag = "row"
    /\ helper_rows' = Append(helper_rows, Head(to_remote).row)
    /\ to_remote' = Tail(to_remote)
    /\ UNCHANGED <<joinVars, reduceVars, graphVars, mapVars, callVars>>
    /\ UNCHANGED <<rows, upFail, keys, reverse, plan, dpc, active, fed, row_count_before,
                   row_count_after, to_local, hpc, sent, joined, out>>

\* row = endpoint.recv(); if row is None: break
HelperRecvNone ==
    /\ hpc = "recv"
    /\ to_remote # <<>> /\ Head(to_remote).tag = "none"
    /\ to_remote' = Tail(to_remote)
    /\ hpc' = "sort"
    /\ UNCHANGED <<joinVars, reduceVars, graphVars, mapVars, callVars>>
    /\ UNCHANGED <<rows, upFail, keys, reverse, plan, dpc, active, fed, row_count_before,
                   row_count_after, to_local, helper_rows, sent, joined, out>>

\* rows.sort(key=itemgetter(*keys), reverse=reverse); an exception ends the
\* process with nothing sent
HelperSort ==
    /\ hpc = "sort"
    /\ IF SortRaises(helper_rows, keys)
       THEN hpc' = "raised" /\ helper_rows' = helper_rows
       ELSE hpc' = "send" /\ helper_rows' = ListSort(helper_rows, keys, reverse)
    /\ UNCHANGED <<joinVars, reduceVars, graphVars, mapVars, callVars>>
    /\ UNCHANGED <<rows, upFail, keys, reverse, plan, dpc, active, fed, row_count_before,
                   row_count_after, to_remote, to_local, sent, joined, out>>

\* a helper that echoes rows back while it is still receiving
HelperSendRow_WhileReceiving ==
    /\ hpc \in {"recv", "send"}
    /\ sent < Len(helper_rows)
    /\ Len(to_local) < PipeCap
    /\ to_local' = Append(to_local, RowMsg(helper_rows[sent + 1]))
    /\ sent' = sent + 1
    /\ UNCHANGED <<joinVars, reduceVars, graphVars, mapVars, callVars>>
    /\ UNCHANGED <<rows, upFail, keys, reverse, plan, dpc, active, fed, row_count_before,
                   row_count_after, to_remote, hpc, helper_rows, joined, out>>

\* for row in rows: endpoint.send(row)
HelperSendRow ==
    /\ hpc = "send"
    /\ sent < Len(helper_rows)
    /\ Len(to_local) < PipeCap
    /\ to_local' = Append(to_local, RowMsg(helper_rows[sent + 1]))
    /\ sent' = sent + 1
    /\ UNCHANGED <<joinVars, reduceVars, graphVars, mapVars, callVars>>
    /\ UNCHANGED <<rows, upFail, keys, reverse, plan, dpc, active, fed, row_count_before,
                   row_count_after, to_remote, hpc, helper_rows, joined, out>>

\* a helper that returns without the closing sentinel
HelperSendNone_NoSentinel ==
    /\ hpc = "send"
    /\ sent = Len(helper_rows)
    /\ hpc' = "exited"
    /\ UNCHANGED <<joinVars, reduceVars, graphVars, mapVars, callVars>>
    /\ UNCHANGED <<rows, upFail, keys, reverse, plan, dpc, active, fed, row_count_before,
                   row_count_after, to_remote, to_local, helper_rows, sent, joined, out>>

\* endpoint.send(None); do_sort returns and the process exits
HelperSendNone ==
    /\ hpc = "send"
    /\ sent = Len(helper_rows)
    /\ Len(to_local) < PipeCap
    /\ to_local' = Append(to_local, NoneMsg)
    /\ hpc' = "exited"
    /\ UNCHANGED <<joinVars, reduceVars, graphVars, mapVars, callVars>>
    /\ UNCHANGED <<rows, upFail, keys, reverse, plan, dpc, active, fed, row_count_before,
                   row_count_after, to_remote, helper_rows, sent, joined, out>>

\* After the generator frame is gone its two Connection objects may be
\* collected and closed.  A helper started by spawn then holds the only other
\* descriptor: its blocked recv() raises EOFError (its send() a broken pipe)
\* and it dies.  A forked helper inherited a copy of local_endpoint and stays
\* blocked.  Which of the two happens depends on the start method.
HelperPeerClosed ==
    /\ dpc \in {"raised", "closed"}
    /\ \/ hpc = "recv" /\ to_remote = <<>>
       \/ hpc = "send"
    /\ hpc' = "peer_closed"
    /\ UNCHANGED <<joinVars, reduceVars, graphVars, mapVars, callVars>>
    /\ UNCHANGED <<rows, upFail, keys, reverse, plan, dpc, active, fed, row_count_before,
                   row_count_after, to_remote, to_local, helper_rows, sent, joined, out>>

SortNext ==
    \/ ConsumerPull
    \/ ConsumerAbandon
    \/ DriverStart
    \/ DriverFeed
    \/ DriverUpstreamRaises
    \/ DriverSendNone
    \/ DriverYield
    \/ DriverResume
    \/ DriverRecvNone
    \/ DriverAssert
    \/ DriverJoin
    \/ HelperRecvRow
    \/ HelperRecvNone
    \/ HelperSort
    \/ HelperSendRow
    \/ HelperSendNone
    \/ HelperPeerClosed

\* a sort operator on its own
SortSpecInit == SortInit /\ JoinIdle /\ ReduceIdle /\ GraphIdle /\ MapIdle /\ CallIdle

SortSpec == SortSpecInit /\ [][SortNext]_vars

\* The consumer of a stream it drains keeps calling next(); the generator
\* runs whenever it is inside next(); the operating system schedules the
\* helper process.  A closed peer is not something the helper can rely on.
SortDriverStep ==
    \/ DriverStart \/ DriverFeed \/ DriverUpstreamRaises \/ DriverSendNone
    \/ DriverYield \/ DriverResume \/ DriverRecvNone \/ DriverAssert \/ DriverJoin

SortHelperStep ==
    HelperRecvRow \/ HelperRecvNone \/ HelperSort \/ HelperSendRow \/ HelperSendNone

FairSortSpec ==
    /\ SortSpec
    /\ WF_vars(ConsumerPull \/ ConsumerAbandon)
    /\ WF_vars(SortDriverStep)
    /\ WF_vars(SortHelperStep)

(* --------------------------- sort: properties -------------------------- *)
Perms(n) == {p \in [1..n -> 1..n] : \A i, j \in 1..n : i # j => p[i] # p[j]}

\* outp is inp rearranged into key order (descending when rev), key-equal
\* rows keeping their input order
IsStableSortOf(outp, inp, ks, rev) ==
    /\ Len(outp) = Len(inp)
    /\ \E p \in Perms(Len(inp)) :
          /\ \A i \in 1..Len(inp) : outp[i] = inp[p[i]]
          /\ \A i, j \in 1..Len(inp) :
                i < j =>
                  LET ki == KeyTuple(outp[i], ks)
                      kj == KeyTuple(outp[j], ks)
                  IN  /\ (IF rev THEN ~TupleLess(ki, kj) ELSE ~TupleLess(kj, ki))
                      /\ (ki = kj => p[i] < p[j])

AllKeysPresent(rs, ks) == \A i \in DOMAIN rs : KeysPresent(rs[i], ks)

Sortable(rs, ks) == ~SortRaises(rs, ks)

\* C2: for any input stream whose rows carry the key columns and any key
\* list, the sort goes through in the helper and the stream the driver has
\* emitted when it reports exhaustion is the input, stably ordered by the key
\* tuple (descending when reverse).
C2_SortEmitsStableSortedInput ==
    (AllKeysPresent(rows, keys) /\ upFail = 0) =>
        /\ hpc # "raised"
        /\ (dpc = "done" => IsStableSortOf(out, rows, keys, reverse))

\* what does hold of the code: a stream that reports exhaustion is the
\* stably sorted input, in both directions
SortIsStableWhenDone ==
    dpc = "done" => IsStableSortOf(out, rows, keys, reverse)

\* C3: whenever the driver stands at its assertion, having received the
\* helper's sentinel, row_count_before equals row_count_after, and these are
\* the numbers of rows ingested and emitted; the assertion never fails.
C3_RowCountPreserved ==
    /\ dpc # "assertion_error"
    /\ dpc = "assert" =>
          /\ row_count_before = row_count_after
          /\ row_count_before = Len(rows)
          /\ row_count_after = Len(out)

C3_Witness == dpc = "assert" /\ row_count_after >= 2 /\ keys = <<"b", "a">>

\* C4: once the helper has failed in its sort, before any sentinel, a
\* consumer draining the stream eventually receives an error from it.
C4_HelperFailureSurfaces ==
    (hpc = "raised" /\ plan.drain) ~> (dpc \in {"raised", "assertion_error"})

\* C5: once the upstream's error has left the generator, the helper
\* eventually terminates and is joined.
C5_HelperReleasedOnUpstreamError ==
    (dpc = "raised") ~> (HelperTerminated /\ joined)

\* C6: when the generator is torn down by a consumer that abandons the
\* stream after the helper was spawned, the helper is terminated and joined.
C6_HelperJoinedOnAbandon ==
    (dpc = "closed" /\ hpc # "none") => (HelperTerminated /\ joined)

\* C7: for sortable rows and a consumer that drains the stream, driver and
\* helper both terminate: the helper exits having sent its sentinel, and the
\* driver has received the sentinel and joined the helper when it reports
\* exhaustion.
C7_DrainTerminates ==
    (Sortable(rows, keys) /\ upFail = 0 /\ plan.drain) ~>
        (dpc = "done" /\ joined /\ hpc = "exited" /\ to_local = <<>> /\ to_remote = <<>>)

C7_Witness ==
    /\ Sortable(rows, keys) /\ upFail = 0 /\ plan.drain
    /\ dpc = "done" /\ joined /\ hpc = "exited"
    /\ Len(out) >= 2

\* the driver has pulled its upstream to exhaustion and sent the sentinel
SentinelSent ==
    hpc # "none" /\ upFail = 0 /\ fed = Len(rows) /\ dpc \notin {"unstarted", "feed"}

\* the helper has taken the sentinel off the pipe
SentinelReceived == SentinelSent /\ to_remote = <<>> /\ Len(helper_rows) = Len(rows)

\* C18: the sort is a barrier: the driver emits no row before it has pulled
\* its upstream to exhaustion and sent the sentinel, and the helper sends no
\* row back before it has received that sentinel.
C18_SortIsBarrier ==
    /\ (out # <<>> \/ dpc = "yielded") => SentinelSent
    /\ (sent > 0 \/ to_local # <<>>) => SentinelReceived

C18_Witness == dpc = "yielded" /\ Len(rows) = 2 /\ Len(out) = 1 /\ sent = 2

(* ======================================================================= *)
(*                                  Join                                   *)
(* ======================================================================= *)
JoinRow(k, x) == << [c |-> "k", v |-> k], [c |-> "x", v |-> x] >>

JoinRowValues == {JoinRow(k, x) : k \in 1..2, x \in 1..2}

JoinKeyLists == { <<>>, <<"k">>, <<"k", "x">> }

JoinerKinds == {"inner", "outer", "left", "right"}

\* a groupby that opens a new group at every row
RECURSIVE GroupBy_EveryRow(_, _)
GroupBy_EveryRow(rs, ks) ==
    IF rs = <<>> THEN <<>>
    ELSE GroupBy_EveryRow(SubSeq(rs, 1, Len(rs) - 1), ks) \o << <<rs[Len(rs)]>> >>

\* itertools.groupby(rows, key=lambda row: tuple(row[key] for key in keys)):
\* the groups in order, a new one starting where the key tuple changes
RECURSIVE GroupBy(_, _)
GroupBy(rs, ks) ==
    IF rs = <<>> THEN <<>>
    ELSE LET before == GroupBy(SubSeq(rs, 1, Len(rs) - 1), ks)
             row    == rs[Len(rs)]
         IN  IF before # <<>> /\ KeyTuple(before[Len(before)][1], ks) = KeyTuple(row, ks)
             THEN [before EXCEPT ![Len(before)] = Append(@, row)]
             ELSE Append(before, <<row>>)

\* Joiner._join_two_rows: one joined row
JoinTwoRows(ks, row_a, row_b, sa, sb) ==
    LET intersected_keys == Cols(row_a) \cap (Cols(row_b) \ {ks[i] : i \in DOMAIN ks})
        Name(col, sfx)   == IF col \in intersected_keys THEN col \o sfx ELSE col
        RECURSIVE Fill(_, _, _, _)
        Fill(joined_row, row, sfx, i) ==
            IF i > Len(row) THEN joined_row
            ELSE Fill(Put(joined_row, Name(row[i].c, sfx), row[i].v), row, sfx, i + 1)
    IN  Fill(Fill(<<>>, row_a, sa, 1), row_b, sb, 1)

\* for row_a in outer: for row_b in inner: yield from _join_two_rows(...)
NestedLoop(ks, outer, inner) ==
    [n \in 1..(Len(outer) * Len(inner)) |->
        JoinTwoRows(ks, outer[((n - 1) \div Len(inner)) + 1],
                        inner[((n - 1) % Len(inner)) + 1], a_suffix, b_suffix)]

\* a padding row that carries a null-valued column
OrEmptyRow_NullRow(group) == IF group = <<>> THEN << << [c |-> "x", v |-> 0] >> >> ELSE group

\* list(rows) or [{}]
OrEmptyRow(group) == IF group = <<>> THEN << <<>> >> ELSE group

\* InnerJoiner.__call__; "rows_a and rows_b" tests two iterator objects,
\* which are always true
InnerJoiner(ks, rows_a, rows_b) == NestedLoop(ks, rows_a, rows_b)

\* OuterJoiner.__call__
OuterJoiner(ks, rows_a, rows_b) == NestedLoop(ks, OrEmptyRow(rows_a), OrEmptyRow(rows_b))

\* a left joiner that also pads an empty left group
LeftJoiner_PadsLeft(ks, rows_a, rows_b) ==
    NestedLoop(ks, OrEmptyRow(rows_a), OrEmptyRow(rows_b))

\* LeftJoiner.__call__
LeftJoiner(ks, rows_a, rows_b) == NestedLoop(ks, rows_a, OrEmptyRow(rows_b))

\* RightJoiner.__call__: the right rows drive the outer loop and are passed
\* to _join_two_rows as row_a
RightJoiner(ks, rows_a, rows_b) == NestedLoop(ks, rows_b, OrEmptyRow(rows_a))

\* self.joiner(self.keys, rows_a, rows_b)
JoinerCall(kind, ks, rows_a, rows_b) ==
    CASE kind = "inner" -> InnerJoiner(ks, rows_a, rows_b)
      [] kind = "outer" -> OuterJoiner(ks, rows_a, rows_b)
      [] kind = "left"  -> LeftJoiner(ks, rows_a, rows_b)
      [] kind = "right" -> RightJoiner(ks, rows_a, rows_b)

JoinInit ==
    /\ first_table \in SeqsUpTo(JoinRowValues, MaxJoinRows)
    /\ second_table \in SeqsUpTo(JoinRowValues, MaxJoinRows)
    /\ join_keys \in JoinKeyLists
    /\ joiner \in JoinerKinds
    /\ jpc = "unstarted"
    /\ gi_first = 0
    /\ gi_second = 0
    /\ joiner_calls = <<>>
    /\ join_out = <<>>
    /\ a_suffix = suffix_a
    /\ b_suffix = suffix_b
    /\ pass = 1
    /\ first_pass_out = <<>>

gen_groups_first_table == GroupBy(first_table, join_keys)
gen_groups_second_table == GroupBy(second_table, join_keys)

\* rows_iter_*_table is not None
HasFirst == gi_first <= Len(gen_groups_first_table)
HasSecond == gi_second <= Len(gen_groups_second_table)

rows_iter_first_table == gen_groups_first_table[gi_first]
rows_iter_second_table == gen_groups_second_table[gi_second]
\* iter({})
rows_iter_default == <<>>

key_group_first_table == KeyTuple(rows_iter_first_table[1], join_keys)
key_group_second_table == KeyTuple(rows_iter_second_table[1], join_keys)

\* yield from self.joiner(self.keys, rows_a, rows_b)
YieldFromJoiner(rows_a, rows_b) ==
    LET emitted == JoinerCall(joiner, join_keys, rows_a, rows_b)
    IN  /\ joiner_calls' = Append(joiner_calls, [a |-> rows_a, b |-> rows_b, emitted |-> emitted])
        /\ join_out' = join_out \o emitted

\* the two groupby objects are built and their first groups fetched
JoinStart ==
    /\ jpc = "unstarted"
    /\ jpc' = "merge"
    /\ gi_first' = 1
    /\ gi_second' = 1
    /\ UNCHANGED <<first_table, second_table, join_keys, joiner, joiner_calls, join_out>>
    /\ UNCHANGED <<a_suffix, b_suffix, pass, first_pass_out>>
    /\ UNCHANGED <<sortVars, reduceVars, graphVars, mapVars, callVars>>

\* key_group_first_table < key_group_second_table
JoinFirstSmaller ==
    /\ jpc = "merge" /\ HasFirst /\ HasSecond
    /\ TupleLess(key_group_first_table, key_group_second_table)
    /\ YieldFromJoiner(rows_iter_first_table, rows_iter_default)
    /\ gi_first' = gi_first + 1
    /\ UNCHANGED <<first_table, second_table, join_keys, joiner, jpc, gi_second>>
    /\ UNCHANGED <<a_suffix, b_suffix, pass, first_pass_out>>
    /\ UNCHANGED <<sortVars, reduceVars, graphVars, mapVars, callVars>>

\* key_group_first_table > key_group_second_table
JoinSecondSmaller ==
    /\ jpc = "merge" /\ HasFirst /\ HasSecond
    /\ TupleLess(key_group_second_table, key_group_first_table)
    /\ YieldFromJoiner(rows_iter_default, rows_iter_second_table)
    /\ gi_second' = gi_second + 1
    /\ UNCHANGED <<first_table, second_table, join_keys, joiner, jpc, gi_first>>
    /\ UNCHANGED <<a_suffix, b_suffix, pass, first_pass_out>>
    /\ UNCHANGED <<sortVars, reduceVars, graphVars, mapVars, callVars>>

\* an equal branch that advances the left side only
JoinEqual_AdvancesFirstOnly ==
    /\ jpc = "merge" /\ HasFirst /\ HasSecond
    /\ ~TupleLess(key_group_first_table, key_group_second_table)
    /\ ~TupleLess(key_group_second_table, key_group_first_table)
    /\ YieldFromJoiner(rows_iter_first_table, rows_iter_second_table)
    /\ gi_first' = gi_first + 1
    /\ UNCHANGED <<first_table, second_table, join_keys, joiner, jpc, gi_second>>
    /\ UNCHANGED <<a_suffix, b_suffix, pass, first_pass_out>>
    /\ UNCHANGED <<sortVars, reduceVars, graphVars, mapVars, callVars>>

\* else: the keys are equal
JoinEqual ==
    /\ jpc = "merge" /\ HasFirst /\ HasSecond
    /\ ~TupleLess(key_group_first_table, key_group_second_table)
    /\ ~TupleLess(key_group_second_table, key_group_first_table)
    /\ YieldFromJoiner(rows_iter_first_table, rows_iter_second_table)
    /\ gi_first' = gi_first + 1
    /\ gi_second' = gi_second + 1
    /\ UNCHANGED <<first_table, second_table, join_keys, joiner, jpc>>
    /\ UNCHANGED <<a_suffix, b_suffix, pass, first_pass_out>>
    /\ UNCHANGED <<sortVars, reduceVars, graphVars, mapVars, callVars>>

\* merge remaining elements of first table
JoinDrainFirst ==
    /\ jpc = "merge" /\ HasFirst /\ ~HasSecond
    /\ YieldFromJoiner(rows_iter_first_table, rows_iter_default)
    /\ gi_first' = gi_first + 1
    /\ UNCHANGED <<first_table, second_table, join_keys, joiner, jpc, gi_second>>
    /\ UNCHANGED <<a_suffix, b_suffix, pass, first_pass_out>>
    /\ UNCHANGED <<sortVars, reduceVars, graphVars, mapVars, callVars>>

\* merge remaining elements of second table
JoinDrainSecond ==
    /\ jpc = "merge" /\ ~HasFirst /\ HasSecond
    /\ YieldFromJoiner(rows_iter_default, rows_iter_second_table)
    /\ gi_second' = gi_second + 1
    /\ UNCHANGED <<first_table, second_table, join_keys, joiner, jpc, gi_first>>
    /\ UNCHANGED <<a_suffix, b_suffix, pass, first_pass_out>>
    /\ UNCHANGED <<sortVars, reduceVars, graphVars, mapVars, callVars>>

\* both sides are exhausted: the generator returns
JoinReturn ==
    /\ jpc = "merge" /\ ~HasFirst /\ ~HasSecond
    /\ jpc' = "done"
    /\ UNCHANGED <<first_table, second_table, join_keys, joiner, gi_first, gi_second,
                   joiner_calls, join_out>>
    /\ UNCHANGED <<a_suffix, b_suffix, pass, first_pass_out>>
    /\ UNCHANGED <<sortVars, reduceVars, graphVars, mapVars, callVars>>

JoinNext ==
    \/ JoinStart
    \/ JoinFirstSmaller
    \/ JoinSecondSmaller
    \/ JoinEqual
    \/ JoinDrainFirst
    \/ JoinDrainSecond
    \/ JoinReturn

\* a join operator on its own
JoinSpecInit == JoinInit /\ SortIdle /\ ReduceIdle /\ GraphIdle /\ MapIdle /\ CallIdle

JoinSpec == JoinSpecInit /\ [][JoinNext]_vars

(* --------------------------- join: properties -------------------------- *)
\* ascending on the key tuple
SortedOn(rs, ks) ==
    \A i, j \in DOMAIN rs : i < j => ~TupleLess(KeyTuple(rs[j], ks), KeyTuple(rs[i], ks))

KeysIn(rs, ks) == {KeyTuple(rs[i], ks) : i \in DOMAIN rs}

\* the rows of rs carrying key tuple k, in stream order
RowsWithKey(rs, ks, k) ==
    LET HasKey(r) == KeyTuple(r, ks) = k IN SelectSeq(rs, HasKey)

CallKey(call) ==
    IF call.a # <<>> THEN KeyTuple(call.a[1], join_keys) ELSE KeyTuple(call.b[1], join_keys)

JoinInputsSorted == SortedOn(first_table, join_keys) /\ SortedOn(second_table, join_keys)

\* C1: over inputs sorted on the join keys (the empty key list included) the
\* joiner is invoked once per distinct key tuple of either input, in ascending
\* key order, with the complete left group and the complete right group of
\* that key, an absent side being the empty group.
C1_JoinerCalledOncePerKey ==
    JoinInputsSorted =>
        /\ \A i \in DOMAIN joiner_calls :
              /\ joiner_calls[i].a # <<>> \/ joiner_calls[i].b # <<>>
              /\ joiner_calls[i].a = RowsWithKey(first_table, join_keys, CallKey(joiner_calls[i]))
              /\ joiner_calls[i].b = RowsWithKey(second_table, join_keys, CallKey(joiner_calls[i]))
        /\ \A i, j \in DOMAIN joiner_calls :
              i < j => TupleLess(CallKey(joiner_calls[i]), CallKey(joiner_calls[j]))
        /\ jpc = "done" =>
              {CallKey(joiner_calls[i]) : i \in DOMAIN joiner_calls}
                  = KeysIn(first_table, join_keys) \cup KeysIn(second_table, join_keys)

C1_Witness ==
    /\ JoinInputsSorted /\ jpc = "done"
    /\ \E i \in DOMAIN joiner_calls : joiner_calls[i].a # <<>> /\ joiner_calls[i].b # <<>>
    /\ \E i \in DOMAIN joiner_calls : joiner_calls[i].a # <<>> /\ joiner_calls[i].b = <<>>
    /\ \E i \in DOMAIN joiner_calls : joiner_calls[i].a = <<>> /\ joiner_calls[i].b # <<>>

\* rows a joiner is to emit for a key held by one side only
OneSidedCount(kind, nLeft, nRight) ==
    CASE kind = "inner" -> 0
      [] kind = "left"  -> nLeft
      [] kind = "right" -> nRight
      [] kind = "outer" -> IF nLeft > 0 THEN nLeft ELSE nRight

OneSidedKeys ==
    (KeysIn(first_table, join_keys) \cup KeysIn(second_table, join_keys))
        \ (KeysIn(first_table, join_keys) \cap KeysIn(second_table, join_keys))

\* C10: over sorted inputs, for a key tuple held by exactly one side the
\* joiner emits: inner 0 rows; left the left group's size (0 for a right-only
\* key); right the right group's size (0 for a left-only key); outer the size
\* of the group that is present.
C10_OneSidedKeyRowCount ==
    JoinInputsSorted =>
        /\ \A i \in DOMAIN joiner_calls :
              CallKey(joiner_calls[i]) \in OneSidedKeys =>
                  Len(joiner_calls[i].emitted) =
                      OneSidedCount(joiner,
                          Len(RowsWithKey(first_table, join_keys, CallKey(joiner_calls[i]))),
                          Len(RowsWithKey(second_table, join_keys, CallKey(joiner_calls[i]))))
        /\ jpc = "done" =>
              \A k \in OneSidedKeys : \E i \in DOMAIN joiner_calls : CallKey(joiner_calls[i]) = k

C10_Witness ==
    /\ JoinInputsSorted /\ jpc = "done" /\ joiner = "left"
    /\ \E i \in DOMAIN joiner_calls :
          /\ joiner_calls[i].a = <<>> /\ Len(joiner_calls[i].b) = 2
          /\ joiner_calls[i].emitted = <<>>
    /\ \E i \in DOMAIN joiner_calls :
          /\ joiner_calls[i].b = <<>> /\ joiner_calls[i].a # <<>>
          /\ Len(joiner_calls[i].emitted) = Len(joiner_calls[i].a)

\* a call whose key both sides hold
Matched(call) == call.a # <<>> /\ call.b # <<>>

\* the row the composition rule prescribes for left row L and right row R:
\* L's columns, then R's columns not yet there; a non-key column of both rows
\* is named c + suffix_a for L and c + suffix_b for R
ComposedRow(ks, L, R) ==
    LET overlap == (Cols(L) \cap Cols(R)) \ {ks[i] : i \in DOMAIN ks}
        Renamed(row, sfx) ==
            [i \in DOMAIN row |->
                [c |-> IF row[i].c \in overlap THEN row[i].c \o sfx ELSE row[i].c,
                 v |-> row[i].v]]
        left == Renamed(L, suffix_a)
        IsNew(e) == e.c \notin Cols(left)
    IN  left \o SelectSeq(Renamed(R, suffix_b), IsNew)

\* C11: for every strategy and every matched pair (L, R) the joined row is L's
\* columns followed by R's, a shared non-key column c appearing as c + suffix_a
\* with L's value and c + suffix_b with R's value.
C11_JoinedRowNaming ==
    JoinInputsSorted =>
        \A i \in DOMAIN joiner_calls :
            Matched(joiner_calls[i]) =>
                {joiner_calls[i].emitted[n] : n \in DOMAIN joiner_calls[i].emitted}
                    = {ComposedRow(join_keys, joiner_calls[i].a[m], joiner_calls[i].b[n]) :
                          m \in DOMAIN joiner_calls[i].a, n \in DOMAIN joiner_calls[i].b}

\* the pair of rows left-major order puts at position n
LeftRowAt(call, n) == call.a[((n - 1) \div Len(call.b)) + 1]
RightRowAt(call, n) == call.b[((n - 1) % Len(call.b)) + 1]

\* C12: for every strategy and every key on both sides the rows emitted are
\* one per pair of the two groups, |left| x |right| of them, in left-major
\* order (the row at a position may carry its pair's values under either
\* suffix; the naming is C11's subject).
C12_CartesianLeftMajor ==
    JoinInputsSorted =>
        \A i \in DOMAIN joiner_calls :
            Matched(joiner_calls[i]) =>
                /\ Len(joiner_calls[i].emitted) = Len(joiner_calls[i].a) * Len(joiner_calls[i].b)
                /\ \A n \in DOMAIN joiner_calls[i].emitted :
                      joiner_calls[i].emitted[n] \in
                          { ComposedRow(join_keys, LeftRowAt(joiner_calls[i], n),
                                                   RightRowAt(joiner_calls[i], n)),
                            ComposedRow(join_keys, RightRowAt(joiner_calls[i], n),
                                                   LeftRowAt(joiner_calls[i], n)) }

\* the strategy emits rows for a key held by this side only
EmitsOneSided(kind, side) ==
    \/ kind = "outer"
    \/ kind = "left" /\ side = "left"
    \/ kind = "right" /\ side = "right"

\* C13: rows emitted for a key held by one side only (outer on either side,
\* left on the left, right on the right) are the rows of the present group
\* themselves, in the group's order: same columns, same values, nothing added.
C13_OneSidedRowsUnchanged ==
    JoinInputsSorted =>
        \A i \in DOMAIN joiner_calls :
            /\ (joiner_calls[i].b = <<>> /\ EmitsOneSided(joiner, "left"))
                  => joiner_calls[i].emitted = joiner_calls[i].a
            /\ (joiner_calls[i].a = <<>> /\ EmitsOneSided(joiner, "right"))
                  => joiner_calls[i].emitted = joiner_calls[i].b

C13_Witness ==
    /\ JoinInputsSorted /\ jpc = "done" /\ joiner = "right" /\ join_keys = <<"k">>
    /\ \E i \in DOMAIN joiner_calls :
          /\ joiner_calls[i].a = <<>>
          /\ Len(joiner_calls[i].b) = 2
          /\ joiner_calls[i].emitted = joiner_calls[i].b

(* ------------------- join: the two sides exchanged --------------------- *)
\* rows for the exchange: besides the plain ones, a row without x and a row
\* that already has a column named like a suffixed x
SwapRowValues ==
    { JoinRow(1, 1), JoinRow(1, 2), JoinRow(2, 1),
      << [c |-> "k", v |-> 1] >>,
      << [c |-> "k", v |-> 1], [c |-> "x", v |-> 1], [c |-> "x_1", v |-> 7] >> }

SwapKeyLists == { <<>>, <<"k">> }

SwapInit ==
    /\ first_table \in SeqsUpTo(SwapRowValues, MaxJoinRows)
    /\ second_table \in SeqsUpTo(SwapRowValues, MaxJoinRows)
    /\ join_keys \in SwapKeyLists
    /\ joiner = "inner"
    /\ jpc = "unstarted"
    /\ gi_first = 0
    /\ gi_second = 0
    /\ joiner_calls = <<>>
    /\ join_out = <<>>
    /\ a_suffix = suffix_a
    /\ b_suffix = suffix_b
    /\ pass = 1
    /\ first_pass_out = <<>>

\* after Join(InnerJoiner(sa, sb), keys)(A, B) has returned, the same keys are
\* joined as Join(InnerJoiner(sb, sa), keys)(B, A)
JoinExchangeSides ==
    /\ jpc = "done" /\ pass = 1
    /\ first_pass_out' = join_out
    /\ first_table' = second_table
    /\ second_table' = first_table
    /\ a_suffix' = b_suffix
    /\ b_suffix' = a_suffix
    /\ pass' = 2
    /\ jpc' = "unstarted"
    /\ gi_first' = 0
    /\ gi_second' = 0
    /\ joiner_calls' = <<>>
    /\ join_out' = <<>>
    /\ UNCHANGED <<join_keys, joiner>>
    /\ UNCHANGED <<sortVars, reduceVars, graphVars, mapVars, callVars>>

SwapNext ==
    \/ JoinStart
    \/ JoinFirstSmaller
    \/ JoinSecondSmaller
    \/ JoinEqual
    \/ JoinDrainFirst
    \/ JoinDrainSecond
    \/ JoinReturn
    \/ JoinExchangeSides

\* an inner join run once as given and once with its sides exchanged
SwapSpecInit == SwapInit /\ SortIdle /\ ReduceIdle /\ GraphIdle /\ MapIdle /\ CallIdle

SwapSpec == SwapSpecInit /\ [][SwapNext]_vars

\* a row as a column-to-value mapping
AsMapping(row) == {row[i] : i \in DOMAIN row}

\* the two streams hold the same mappings the same number of times
SameMultiset(s, t) ==
    \A mp \in {AsMapping(s[i]) : i \in DOMAIN s} \cup {AsMapping(t[i]) : i \in DOMAIN t} :
        Cardinality({i \in DOMAIN s : AsMapping(s[i]) = mp})
            = Cardinality({i \in DOMAIN t : AsMapping(t[i]) = mp})

\* C14: for InnerJoiner and sorted inputs A and B, A-join-B and B-join-A with
\* the two suffixes exchanged emit the same multiset of rows, rows compared as
\* column-to-value mappings.
C14_InnerJoinCommutes ==
    (pass = 2 /\ jpc = "done" /\ JoinInputsSorted) => SameMultiset(first_pass_out, join_out)

\* no input row has a column whose name is another column's name plus a suffix
NoSuffixedColumn ==
    \A t \in {first_table, second_table} : \A i \in DOMAIN t :
        Cols(t[i]) \cap {"x_1", "x_2", "k_1", "k_2"} = {}

\* what does hold of the code: the exchange commutes when no column is named
\* like a suffixed one
InnerJoinCommutesWithoutClash ==
    (pass = 2 /\ jpc = "done" /\ JoinInputsSorted /\ NoSuffixedColumn)
        => SameMultiset(first_pass_out, join_out)

(* ======================================================================= *)
(*                                 Reduce                                  *)
(* ======================================================================= *)
ReduceRow(a, b) == << [c |-> "a", v |-> a], [c |-> "b", v |-> b] >>

ReduceRowValues == {ReduceRow(a, b) : a \in 1..2, b \in 1..2}

ReduceKeyLists == { <<>>, <<"a">>, <<"a", "b">> }

Reducers ==
    { [kind |-> "FirstReducer", column |-> "", n |-> 0],
      [kind |-> "Count", column |-> "n", n |-> 0],
      [kind |-> "Count", column |-> "a", n |-> 0],
      [kind |-> "Count", column |-> "b", n |-> 0] }
    \cup { [kind |-> "TopN", column |-> "b", n |-> n] : n \in 0..MaxTopN }

\* a FirstReducer without the break: it yields every row of the group
FirstReducer_NoBreak(group_key, rs) == rs

\* FirstReducer.__call__: the first row, if there is one
FirstReducer(group_key, rs) == IF rs = <<>> THEN <<>> ELSE <<rs[1]>>

\* a Count that never copies the key columns into new_row
Count_NoKeyColumns(column, group_key, rs) == << << [c |-> column, v |-> Len(rs)] >> >>

\* Count.__call__: new_row starts as {column: 0}; the first row whose turn
\* finds group_key[0] missing from new_row copies the key columns in; every
\* row adds one to new_row[column]
Count(column, group_key, rs) ==
    LET RECURSIVE Update(_, _, _)
        Update(new_row, row, i) ==
            IF i > Len(group_key) THEN new_row
            ELSE Update(Put(new_row, group_key[i], Get(row, group_key[i])), row, i + 1)
        RECURSIVE Loop(_, _)
        Loop(new_row, i) ==
            IF i > Len(rs) THEN new_row
            ELSE LET keyed == IF group_key # <<>> /\ ~HasCol(new_row, group_key[1])
                              THEN Update(new_row, rs[i], 1)
                              ELSE new_row
                 IN  Loop(Put(keyed, column, Get(keyed, column) + 1), i + 1)
    IN  << Loop(<< [c |-> column, v |-> 0] >>, 1) >>

\* a TopN that keeps the smallest values
TopN_Smallest(column_max, n, rs) ==
    LET sorted == ListSort(rs, <<column_max>>, FALSE)
    IN  SubSeq(sorted, 1, IF n < Len(sorted) THEN n ELSE Len(sorted))

\* TopN.__call__: heapq.nlargest(n, rows, key) is
\* sorted(rows, key=key, reverse=True)[:n]
TopN(column_max, n, rs) ==
    LET sorted == ListSort(rs, <<column_max>>, TRUE)
    IN  SubSeq(sorted, 1, IF n < Len(sorted) THEN n ELSE Len(sorted))

\* self.reducer(tuple(self.keys), grouper)
ReducerCall(red, group_key, rs) ==
    CASE red.kind = "FirstReducer" -> FirstReducer(group_key, rs)
      [] red.kind = "Count"        -> Count(red.column, group_key, rs)
      [] red.kind = "TopN"         -> TopN(red.column, red.n, rs)

ReduceInit ==
    /\ reduce_rows \in SeqsUpTo(ReduceRowValues, MaxReduceRows)
    /\ reduce_keys \in ReduceKeyLists
    /\ reducer \in Reducers
    /\ rpc = "running"
    /\ gi_reduce = 0
    /\ reducer_calls = <<>>
    /\ reduce_out = <<>>

reduce_groups == GroupBy(reduce_rows, reduce_keys)

\* one turn of "for _, grouper in groupby(...)": yield from self.reducer(...)
ReduceGroup ==
    /\ rpc = "running"
    /\ gi_reduce < Len(reduce_groups)
    /\ gi_reduce' = gi_reduce + 1
    /\ reducer_calls' = Append(reducer_calls,
                               [group_key |-> reduce_keys, rows |-> reduce_groups[gi_reduce + 1],
                                emitted |-> ReducerCall(reducer, reduce_keys,
                                                        reduce_groups[gi_reduce + 1])])
    /\ reduce_out' = reduce_out \o ReducerCall(reducer, reduce_keys, reduce_groups[gi_reduce + 1])
    /\ UNCHANGED <<reduce_rows, reduce_keys, reducer, rpc>>
    /\ UNCHANGED <<sortVars, joinVars, graphVars, mapVars, callVars>>

\* groupby is exhausted: the generator returns
ReduceReturn ==
    /\ rpc = "running"
    /\ gi_reduce = Len(reduce_groups)
    /\ rpc' = "done"
    /\ UNCHANGED <<reduce_rows, reduce_keys, reducer, gi_reduce, reducer_calls, reduce_out>>
    /\ UNCHANGED <<sortVars, joinVars, graphVars, mapVars, callVars>>

ReduceNext ==
    \/ ReduceGroup
    \/ ReduceReturn

\* a reduce operator on its own
ReduceSpecInit == ReduceInit /\ SortIdle /\ JoinIdle /\ GraphIdle /\ MapIdle /\ CallIdle

ReduceSpec == ReduceSpecInit /\ [][ReduceNext]_vars

(* -------------------------- reduce: properties ------------------------- *)
RECURSIVE Flatten(_)
Flatten(ss) == IF ss = <<>> THEN <<>> ELSE Head(ss) \o Flatten(Tail(ss))

IsPrefix(s, t) == Len(s) <= Len(t) /\ s = SubSeq(t, 1, Len(s))

\* C8: the reducer is invoked once per maximal run of contiguous key-equal
\* rows, in input order, with exactly the rows of the run in order, and the
\* output is the concatenation of the reducer's outputs in that order; an
\* empty key list over a non-empty input gives one invocation with all rows.
C8_ReducerCalledOncePerRun ==
    /\ \A i \in DOMAIN reducer_calls :
          /\ reducer_calls[i].rows # <<>>
          /\ reducer_calls[i].group_key = reduce_keys
          /\ \A m, n \in DOMAIN reducer_calls[i].rows :
                KeyTuple(reducer_calls[i].rows[m], reduce_keys)
                    = KeyTuple(reducer_calls[i].rows[n], reduce_keys)
          /\ i > 1 =>
                KeyTuple(reducer_calls[i - 1].rows[1], reduce_keys)
                    # KeyTuple(reducer_calls[i].rows[1], reduce_keys)
    /\ IsPrefix(Flatten([i \in DOMAIN reducer_calls |-> reducer_calls[i].rows]), reduce_rows)
    /\ reduce_out = Flatten([i \in DOMAIN reducer_calls |->
                               ReducerCall(reducer, reduce_keys, reducer_calls[i].rows)])
    /\ rpc = "done" =>
          /\ Flatten([i \in DOMAIN reducer_calls |-> reducer_calls[i].rows]) = reduce_rows
          /\ (reduce_keys = <<>> /\ reduce_rows # <<>>) =>
                (Len(reducer_calls) = 1 /\ reducer_calls[1].rows = reduce_rows)

C8_Witness ==
    /\ rpc = "done" /\ reduce_keys = <<"a">>
    /\ Len(reducer_calls) = 2
    /\ Len(reducer_calls[1].rows) = 2

\* C9: reduce(Count('n'), []) over the empty stream yields the one row {'n': 0}.
C9_CountOfEmptyInput ==
    (rpc = "done" /\ reduce_rows = <<>> /\ reduce_keys = <<>>
        /\ reducer = [kind |-> "Count", column |-> "n", n |-> 0])
      => reduce_out = << << [c |-> "n", v |-> 0] >> >>

\* the one row Count is to emit for a call: the key columns with the group's
\* key values, and col with the number of rows
IsCountRow(emitted, call, col) ==
    /\ Len(emitted) = 1
    /\ Cols(emitted[1]) = {call.group_key[i] : i \in DOMAIN call.group_key} \cup {col}
    /\ Len(emitted[1]) = Cardinality(Cols(emitted[1]))
    /\ \A i \in DOMAIN call.group_key :
          Get(emitted[1], call.group_key[i]) = Get(call.rows[1], call.group_key[i])
    /\ HasCol(emitted[1], col) /\ Get(emitted[1], col) = Len(call.rows)

\* C15 as stated: for every group, key list and result column col, Count(col)
\* emits the key columns with the key values plus col with the row count.
C15_CountRowAnyColumn ==
    reducer.kind = "Count" =>
        \A i \in DOMAIN reducer_calls :
            IsCountRow(reducer_calls[i].emitted, reducer_calls[i], reducer.column)

\* C15 amended: the same, for a result column that is not a grouping key.
C15_CountRow ==
    (reducer.kind = "Count" /\ \A k \in DOMAIN reduce_keys : reduce_keys[k] # reducer.column) =>
        \A i \in DOMAIN reducer_calls :
            IsCountRow(reducer_calls[i].emitted, reducer_calls[i], reducer.column)

C15_Witness ==
    /\ rpc = "done" /\ reducer = [kind |-> "Count", column |-> "b", n |-> 0] /\ reduce_keys = <<"a">>
    /\ \E i \in DOMAIN reducer_calls : Len(reducer_calls[i].rows) = 2


(* ======================================================================= *)
(*                                 Graph                                   *)
(* ======================================================================= *)
MaxNodes == 3
MaxRuns == 2

\* the operations the builder calls below attach to a node
GraphKeys == <<"k">>
CountColumn == "n"

\* the iterables a run call may be given under the name the sources read
GraphTables ==
    { << JoinRow(2, 1), JoinRow(1, 1) >>,
      << JoinRow(1, 2), JoinRow(1, 1) >> }

\* a Graph object: _operation ("None" for the bare Graph()) and _input
Node(operation, input) == [operation |-> operation, input |-> input]

GraphInit == nodes = <<>> /\ gens = <<>> /\ runs = <<>>

\* builder calls precede the run calls; a builder call never touches the
\* nodes or generators that exist, so later ones would add nothing here
CanBuild == Len(nodes) < MaxNodes /\ runs = <<>>

\* Graph(): _input = [self], _operation = None
GraphNew ==
    /\ CanBuild
    /\ nodes' = Append(nodes, Node("None", <<Len(nodes) + 1>>))
    /\ UNCHANGED <<gens, runs>>
    /\ UNCHANGED <<sortVars, joinVars, reduceVars, mapVars, callVars>>

graph_from_iter ==
    /\ CanBuild
    /\ nodes' = Append(nodes, Node("ReadIterFactory", <<>>))
    /\ UNCHANGED <<gens, runs>>
    /\ UNCHANGED <<sortVars, joinVars, reduceVars, mapVars, callVars>>

\* a map that turns the receiver itself into the map node
map_InPlace ==
    /\ CanBuild
    /\ \E self \in DOMAIN nodes : nodes' = [nodes EXCEPT ![self] = Node("Map", <<self>>)]
    /\ UNCHANGED <<gens, runs>>
    /\ UNCHANGED <<sortVars, joinVars, reduceVars, mapVars, callVars>>

map ==
    /\ CanBuild
    /\ \E self \in DOMAIN nodes : nodes' = Append(nodes, Node("Map", <<self>>))
    /\ UNCHANGED <<gens, runs>>
    /\ UNCHANGED <<sortVars, joinVars, reduceVars, mapVars, callVars>>

reduce ==
    /\ CanBuild
    /\ \E self \in DOMAIN nodes : nodes' = Append(nodes, Node("Reduce", <<self>>))
    /\ UNCHANGED <<gens, runs>>
    /\ UNCHANGED <<sortVars, joinVars, reduceVars, mapVars, callVars>>

sort ==
    /\ CanBuild
    /\ \E self \in DOMAIN nodes : nodes' = Append(nodes, Node("ExternalSort", <<self>>))
    /\ UNCHANGED <<gens, runs>>
    /\ UNCHANGED <<sortVars, joinVars, reduceVars, mapVars, callVars>>

join ==
    /\ CanBuild
    /\ \E self \in DOMAIN nodes, join_graph \in DOMAIN nodes :
          nodes' = Append(nodes, Node("Join", <<self, join_graph>>))
    /\ UNCHANGED <<gens, runs>>
    /\ UNCHANGED <<sortVars, joinVars, reduceVars, mapVars, callVars>>

(* ------------------------------- run ----------------------------------- *)
\* a sort whose helper process is started when the generator is created
NewGen_StartsHelper(n, r, ups, kwargs) ==
    [node |-> n, run |-> r, ups |-> ups, kwargs |-> kwargs, st |-> "unstarted",
     la |-> <<>>, buf |-> <<>>, pos |-> 0, to_local |-> <<>>,
     helper |-> IF nodes[n].operation = "ExternalSort" THEN "started" ELSE "none",
     before |-> 0, after |-> 0, pulled |-> 0]

\* the generator object an operation's __call__ returns: nothing of its body
\* has run yet
NewGen(n, r, ups, kwargs) ==
    [node |-> n, run |-> r, ups |-> ups, kwargs |-> kwargs, st |-> "unstarted",
     la |-> <<>>, buf |-> <<>>, pos |-> 0, to_local |-> <<>>, helper |-> "none",
     before |-> 0, after |-> 0, pulled |-> 0]

NoStream == 0

\* a run that hands out a stream for a node without operation and leaves the
\* error to the first pull
RECURSIVE RunNode_DefersError(_, _, _, _)
RunNode_DefersError(G, n, r, kwargs) ==
    LET nd == nodes[n] IN
    IF nd.input = <<>> \/ nd.operation = "None"
    THEN [G |-> Append(G, NewGen(n, r, <<>>, kwargs)), g |-> Len(G) + 1]
    ELSE LET s1 == RunNode_DefersError(G, nd.input[1], r, kwargs) IN
         IF Len(nd.input) < 2
         THEN [G |-> Append(s1.G, NewGen(n, r, <<s1.g>>, kwargs)), g |-> Len(s1.G) + 1]
         ELSE LET s2 == RunNode_DefersError(s1.G, nd.input[2], r, kwargs) IN
              [G |-> Append(s2.G, NewGen(n, r, <<s1.g, s2.g>>, kwargs)),
               g |-> Len(s2.G) + 1]

\* a run that hands the same stream to a join twice when both inputs are the
\* same node
RECURSIVE RunNode_SharesStream(_, _, _, _)
RunNode_SharesStream(G, n, r, kwargs) ==
    LET nd == nodes[n] IN
    IF nd.input = <<>>
    THEN [G |-> Append(G, NewGen(n, r, <<>>, kwargs)), g |-> Len(G) + 1]
    ELSE IF nd.operation # "None"
    THEN LET s1 == RunNode_SharesStream(G, nd.input[1], r, kwargs) IN
         IF s1.g = 0 THEN [G |-> G, g |-> 0]
         ELSE IF Len(nd.input) < 2
         THEN [G |-> Append(s1.G, NewGen(n, r, <<s1.g>>, kwargs)), g |-> Len(s1.G) + 1]
         ELSE IF nd.input[2] = nd.input[1]
         THEN [G |-> Append(s1.G, NewGen(n, r, <<s1.g, s1.g>>, kwargs)),
               g |-> Len(s1.G) + 1]
         ELSE LET s2 == RunNode_SharesStream(s1.G, nd.input[2], r, kwargs) IN
              IF s2.g = 0 THEN [G |-> G, g |-> 0]
              ELSE [G |-> Append(s2.G, NewGen(n, r, <<s1.g, s2.g>>, kwargs)),
                    g |-> Len(s2.G) + 1]
    ELSE [G |-> G, g |-> 0]

\* Graph.run on node n: the generators G extended by the ones this call
\* creates and g, the generator returned (NoStream: run raised)
RECURSIVE RunNode(_, _, _, _)
RunNode(G, n, r, kwargs) ==
    LET nd == nodes[n] IN
    IF nd.input = <<>>
    THEN [G |-> Append(G, NewGen(n, r, <<>>, kwargs)), g |-> Len(G) + 1]
    ELSE IF nd.operation # "None"
    THEN LET s1 == RunNode(G, nd.input[1], r, kwargs) IN
         IF s1.g = NoStream THEN [G |-> G, g |-> NoStream]
         ELSE IF Len(nd.input) < 2
         THEN [G |-> Append(s1.G, NewGen(n, r, <<s1.g>>, kwargs)), g |-> Len(s1.G) + 1]
         ELSE LET s2 == RunNode(s1.G, nd.input[2], r, kwargs) IN
              IF s2.g = NoStream THEN [G |-> G, g |-> NoStream]
              ELSE [G |-> Append(s2.G, NewGen(n, r, <<s1.g, s2.g>>, kwargs)),
                    g |-> Len(s2.G) + 1]
    ELSE [G |-> G, g |-> NoStream]

run ==
    /\ Len(runs) < MaxRuns
    /\ \E n \in DOMAIN nodes, kwargs \in GraphTables :
          LET res == RunNode(gens, n, Len(runs) + 1, kwargs) IN
          /\ gens' = res.G
          /\ runs' = Append(runs, [node |-> n, kwargs |-> kwargs, stream |-> res.g,
                                   state |-> IF res.g = NoStream THEN "raised" ELSE "open",
                                   pulls |-> 0, out |-> <<>>])
    /\ UNCHANGED nodes
    /\ UNCHANGED <<sortVars, joinVars, reduceVars, mapVars, callVars>>

(* ------------------------------ pulls ---------------------------------- *)
\* next(stream) on generator g: the generators afterwards and r, the row
\* delivered as <<row>>, or Stop for StopIteration.  A pull runs the
\* generator's body to its next yield, pulls on its upstreams included; the
\* sort helper's exchange over the pipe, stepped one message at a time in
\* the ExternalSort section, is taken here as the driver sees it from one
\* recv() to the next, and the joiner's loop is taken one group pair at a time
Stop == <<>>

RECURSIVE Pull(_, _)

\* next() on the i-th input stream of g
PullUp(G, g, i) ==
    LET p == Pull(G, G[g].ups[i])
    IN  [G |-> [p.G EXCEPT ![g].pulled = @ + 1], r |-> p.r]

\* groupby's group iterator run to its end: it pulls until a row of another
\* key (kept as the next group's first row) or the end of the input
RECURSIVE TakeGroup(_, _, _, _)
TakeGroup(G, g, i, acc) ==
    LET p == PullUp(G, g, i) IN
    IF p.r = Stop THEN [G |-> p.G, rows |-> acc, la |-> Stop]
    ELSE IF KeyTuple(p.r[1], GraphKeys) = KeyTuple(acc[1], GraphKeys)
    THEN TakeGroup(p.G, g, i, Append(acc, p.r[1]))
    ELSE [G |-> p.G, rows |-> acc, la |-> p.r]

\* next(groupby) after a group that ended with the input: groupby asks the
\* input once more before it stops
AfterGroup(t, g, i) ==
    IF t.la = Stop THEN [t EXCEPT !.G = PullUp(t.G, g, i).G] ELSE t

\* ReadIterFactory.__call__: for row in kwargs[self.name](): yield row
ReadIterFactory(G, g) ==
    LET rec == G[g] IN
    IF rec.pos < Len(rec.kwargs)
    THEN [G |-> [G EXCEPT ![g].st = "running", ![g].pos = @ + 1],
          r |-> <<rec.kwargs[rec.pos + 1]>>]
    ELSE [G |-> [G EXCEPT ![g].st = "done"], r |-> Stop]

\* DummyMapper.__call__: yield row
DummyMapper(row) == <<row>>

\* Map.__call__ with a DummyMapper
Map(G, g) ==
    LET p == PullUp(G, g, 1) IN
    IF p.r = Stop THEN [G |-> [p.G EXCEPT ![g].st = "done"], r |-> Stop]
    ELSE [G |-> [p.G EXCEPT ![g].st = "running"], r |-> <<DummyMapper(p.r[1])[1]>>]

\* Reduce.__call__ with Count(CountColumn) on GraphKeys: one row per group
Reduce(G, g) ==
    LET rec == G[g]
        start == IF rec.st = "unstarted" \/ rec.la[1] = Stop
                 THEN PullUp(G, g, 1)
                 ELSE [G |-> G, r |-> rec.la[1]]
    IN  IF start.r = Stop THEN [G |-> [start.G EXCEPT ![g].st = "done"], r |-> Stop]
        ELSE LET t == TakeGroup(start.G, g, 1, <<start.r[1]>>)
                 emitted == Count(CountColumn, GraphKeys, t.rows)
             IN  [G |-> [t.G EXCEPT ![g].st = "running", ![g].la = <<t.la>>],
                  r |-> <<emitted[1]>>]

\* Join.__call__, one turn of its loops: the group(s) of the smaller key
\* are handed to the joiner (an InnerJoiner) and replaced by the next ones
JoinStep(G, g) ==
    LET l1 == G[g].la[1]
        l2 == G[g].la[2]
        k1 == KeyTuple(l1[1], GraphKeys)
        k2 == KeyTuple(l2[1], GraphKeys)
        takeFirst == l1 # Stop /\ (l2 = Stop \/ ~TupleLess(k2, k1))
        takeSecond == l2 # Stop /\ (l1 = Stop \/ ~TupleLess(k1, k2))
        none == [G |-> G, rows |-> <<>>, la |-> Stop]
        t2 == IF takeSecond THEN AfterGroup(TakeGroup(G, g, 2, <<l2[1]>>), g, 2)
              ELSE [none EXCEPT !.la = l2]
        t1 == IF takeFirst THEN AfterGroup(TakeGroup(t2.G, g, 1, <<l1[1]>>), g, 1)
              ELSE [none EXCEPT !.G = t2.G, !.la = l1]
    IN  [t1.G EXCEPT ![g].la = <<t1.la, t2.la>>,
                     ![g].buf = JoinerCall("inner", GraphKeys, t1.rows, t2.rows)]

\* the join runs on until the joiner yields a row or both inputs are done
RECURSIVE JoinFill(_, _)
JoinFill(G, g) ==
    IF G[g].buf # <<>>
    THEN [G |-> [G EXCEPT ![g].buf = Tail(@)], r |-> <<Head(G[g].buf)>>]
    ELSE IF G[g].la = <<Stop, Stop>> THEN [G |-> [G EXCEPT ![g].st = "done"], r |-> Stop]
    ELSE JoinFill(JoinStep(G, g), g)

Join(G, g) ==
    IF G[g].st = "unstarted"
    THEN LET p1 == PullUp(G, g, 1)
             p2 == PullUp(p1.G, g, 2)
         IN  JoinFill([p2.G EXCEPT ![g].st = "running", ![g].la = <<p1.r, p2.r>>], g)
    ELSE JoinFill(G, g)

\* one pipe for all generators of the same ExternalSort object
ChannelOf_PerOperation(G, g) ==
    CHOOSE h \in DOMAIN G :
        /\ G[h].node = G[g].node
        /\ \A h2 \in DOMAIN G : G[h2].node = G[g].node => h <= h2

\* local_endpoint, remote_endpoint = Pipe(): made by the generator itself,
\* so the pipe and the helper on it belong to the generator
ChannelOf(G, g) == g

\* for row in rows: local_endpoint.send(row); row_count_before += 1
RECURSIVE FeedHelper(_, _, _)
FeedHelper(G, g, acc) ==
    LET p == PullUp(G, g, 1) IN
    IF p.r = Stop THEN [G |-> p.G, rows |-> acc]
    ELSE FeedHelper([p.G EXCEPT ![g].before = @ + 1], g, Append(acc, p.r[1]))

\* what do_sort sends back for the rows it received: the sorted rows, then None
do_sort(rs) ==
    LET sorted == ListSort(rs, GraphKeys, FALSE)
    IN  [i \in 1..Len(sorted) |-> RowMsg(sorted[i])] \o <<NoneMsg>>

\* local_endpoint.recv() and what follows it up to the next yield or the end
SortRecv(G, g) ==
    LET ch == ChannelOf(G, g) IN
    IF G[ch].to_local = <<>>
    THEN [G |-> [G EXCEPT ![g].st = "blocked"], r |-> Stop]
    ELSE LET msg == Head(G[ch].to_local)
             G1 == [G EXCEPT ![ch].to_local = Tail(@)]
         IN  IF msg = NoneMsg
             THEN IF G1[g].before = G1[g].after
                  THEN [G |-> [G1 EXCEPT ![g].st = "done", ![g].helper = "joined"], r |-> Stop]
                  ELSE [G |-> [G1 EXCEPT ![g].st = "assertion_error"], r |-> Stop]
             ELSE [G |-> [G1 EXCEPT ![g].st = "running", ![g].after = @ + 1],
                   r |-> <<msg.row>>]

\* ExternalSort.__call__
ExternalSort(G, g) ==
    IF G[g].st = "unstarted"
    THEN LET ch == ChannelOf(G, g)
             started == [G EXCEPT ![g].st = "running", ![g].helper = "started"]
             sending == FeedHelper(started, g, <<>>)
         IN  SortRecv([sending.G EXCEPT ![ch].to_local = @ \o do_sort(sending.rows)], g)
    ELSE SortRecv(G, g)

Pull(G, g) ==
    LET operation == nodes[G[g].node].operation IN
    IF G[g].st \notin {"unstarted", "running"} THEN [G |-> G, r |-> Stop]
    ELSE CASE operation = "ReadIterFactory" -> ReadIterFactory(G, g)
           [] operation = "Map" -> Map(G, g)
           [] operation = "Reduce" -> Reduce(G, g)
           [] operation = "ExternalSort" -> ExternalSort(G, g)
           [] operation = "Join" -> Join(G, g)
           [] OTHER -> [G |-> G, r |-> Stop]

\* the consumer's next(stream) on the stream a run call returned
consumer_next ==
    /\ \E r \in DOMAIN runs :
          /\ runs[r].state = "open"
          /\ LET p == Pull(gens, runs[r].stream) IN
             /\ gens' = p.G
             /\ runs' = [runs EXCEPT ![r].pulls = @ + 1,
                                     ![r].out = IF p.r = Stop THEN @ ELSE Append(@, p.r[1]),
                                     ![r].state = IF p.r = Stop THEN "exhausted" ELSE "open"]
    /\ UNCHANGED nodes
    /\ UNCHANGED <<sortVars, joinVars, reduceVars, mapVars, callVars>>

GraphNext ==
    \/ GraphNew
    \/ graph_from_iter
    \/ map
    \/ reduce
    \/ sort
    \/ join
    \/ run
    \/ consumer_next

GraphSpecInit == GraphInit /\ SortIdle /\ JoinIdle /\ ReduceIdle /\ MapIdle /\ CallIdle

GraphSpec == GraphSpecInit /\ [][GraphNext]_vars

(* --------------------------- graph properties -------------------------- *)
\* n or a node upstream of n is a non-source node without operation
RECURSIVE ReachesBareNode(_)
ReachesBareNode(n) ==
    /\ nodes[n].input # <<>>
    /\ \/ nodes[n].operation = "None"
       \/ \E i \in DOMAIN nodes[n].input : ReachesBareNode(nodes[n].input[i])

\* C16: run on a node that is, or has upstream, a non-source node without
\* operation raises from the run call itself: no stream is returned, so
\* nothing is left to the first pull.
C16_RunRaisesOnBareNode ==
    \A r \in DOMAIN runs :
        ReachesBareNode(runs[r].node) =>
            /\ runs[r].state = "raised"
            /\ runs[r].stream = NoStream
            /\ runs[r].pulls = 0
            /\ \A g \in DOMAIN gens : gens[g].run # r

C16_Witness ==
    \E r \in DOMAIN runs :
        /\ runs[r].state = "raised"
        /\ nodes[runs[r].node].operation = "Join"
        /\ ~ReachesBareNode(nodes[runs[r].node].input[1])

\* the number of distinct input paths from node n down to node m
RECURSIVE PathCount(_, _)
PathCount(n, m) ==
    LET input == nodes[n].input IN
    IF n = m THEN 1
    ELSE IF nodes[n].operation = "None" \/ input = <<>> THEN 0
    ELSE IF Len(input) < 2 THEN PathCount(input[1], m)
    ELSE PathCount(input[1], m) + PathCount(input[2], m)

GensOf(r, m) == {g \in DOMAIN gens : gens[g].run = r /\ gens[g].node = m}

\* C20: within one run call a node reachable along k input paths has its
\* operation invoked k times, each invocation on upstream streams created for
\* it in this run; no stream is the input of two invocations, or twice of one.
C20_OneInvocationPerPath ==
    /\ \A r \in DOMAIN runs : runs[r].stream # NoStream =>
          \A m \in DOMAIN nodes : Cardinality(GensOf(r, m)) = PathCount(runs[r].node, m)
    /\ \A g \in DOMAIN gens : \A i \in DOMAIN gens[g].ups :
          /\ gens[g].ups[i] < g
          /\ gens[gens[g].ups[i]].run = gens[g].run
          /\ gens[gens[g].ups[i]].node = nodes[gens[g].node].input[i]
    /\ \A g, h \in DOMAIN gens : \A i \in DOMAIN gens[g].ups, j \in DOMAIN gens[h].ups :
          <<g, i>> # <<h, j>> => gens[g].ups[i] # gens[h].ups[j]

C20_Witness ==
    \E r \in DOMAIN runs, m \in DOMAIN nodes :
        /\ runs[r].stream # NoStream
        /\ PathCount(runs[r].node, m) = 4
        /\ Cardinality(GensOf(r, m)) = 4

\* generator g has done work in this step: its body has started or moved, it
\* has pulled on an input, or its helper process has been spawned or joined
\* (a generator that did not exist before the step starts from nothing done)
DidWork(g) ==
    LET old == IF g \in DOMAIN gens THEN gens[g]
               ELSE [st |-> "unstarted", pulled |-> 0, helper |-> "none"]
    IN  \/ gens'[g].st # old.st
        \/ gens'[g].pulled # old.pulled
        \/ gens'[g].helper # old.helper

\* the consumer has pulled on the stream of run call r in this step
ConsumerPulled(r) == r \in DOMAIN runs /\ runs'[r].pulls = runs[r].pulls + 1

\* C19: building a graph and calling run do no operator work: a generator
\* starts, pulls on an input or spawns its sort helper only in a step in
\* which the consumer pulls on the stream of the generator's run call, so
\* between run returning and the first pull nothing has been pulled or spawned.
C19_WorkOnlyOnConsumerPull ==
    [][\A g \in DOMAIN gens' : DidWork(g) => ConsumerPulled(gens'[g].run)]_vars

\* one stream still untouched after run while a sort of another run call of
\* the same node has already pulled its input and spawned its helper
C19_Witness ==
    \E r1, r2 \in DOMAIN runs :
        /\ runs[r1].state = "open" /\ runs[r1].pulls = 0
        /\ \A g \in DOMAIN gens : gens[g].run = r1 =>
              gens[g].st = "unstarted" /\ gens[g].pulled = 0 /\ gens[g].helper = "none"
        /\ runs[r2].pulls = 1 /\ runs[r2].node = runs[r1].node
        /\ \E g \in DOMAIN gens :
              /\ gens[g].run = r2 /\ nodes[gens[g].node].operation = "ExternalSort"
              /\ gens[g].helper = "started" /\ gens[g].pulled = 3

\* the rows a stream yields when it is drained with nothing else going on
RECURSIVE Drain(_, _, _)
Drain(G, g, acc) ==
    LET p == Pull(G, g) IN
    IF p.r = Stop THEN acc ELSE Drain(p.G, g, Append(acc, p.r[1]))

\* what the only run call of a program yields on node n with these inputs
AloneOutput(n, kwargs) ==
    LET res == RunNode(<<>>, n, 1, kwargs) IN Drain(res.G, res.g, <<>>)

\* C17: run calls give independent streams: under every interleaving of the
\* pulls on the streams of several run calls, each stream yields the rows it
\* would yield if its run call were the only one, in the same order.
C17_RunsAreIndependent ==
    \A r \in DOMAIN runs : runs[r].stream # NoStream =>
        LET alone == AloneOutput(runs[r].node, runs[r].kwargs) IN
        /\ IsPrefix(runs[r].out, alone)
        /\ runs[r].state = "exhausted" => runs[r].out = alone

\* two run calls on one node with a sort, given different inputs, both
\* part-way through their streams
C17_Witness ==
    \E r1, r2 \in DOMAIN runs :
        /\ r1 # r2 /\ runs[r1].node = runs[r2].node
        /\ runs[r1].kwargs # runs[r2].kwargs
        /\ runs[r1].state = "open" /\ runs[r2].state = "open"
        /\ Len(runs[r1].out) = 1 /\ Len(runs[r2].out) = 1
        /\ runs[r1].out # runs[r2].out
        /\ \E g, h \in DOMAIN gens :
              /\ gens[g].run = r1 /\ gens[h].run = r2
              /\ gens[g].helper = "started" /\ gens[h].helper = "started"

\* C21: a builder call (map, reduce, sort, join) returns a new node and leaves
\* every node built before, the receiver and the other graph of a join
\* included, with the operation and the inputs it had; run calls and pulls
\* leave the nodes alone as well.
C21_BuildersLeaveNodesUnchanged ==
    [][/\ \A n \in DOMAIN nodes : n \in DOMAIN nodes' /\ nodes'[n] = nodes[n]
       /\ nodes' # nodes => Len(nodes') = Len(nodes) + 1]_vars

\* a node that is the input of two later nodes, one of them a join
C21_Witness ==
    /\ Len(nodes) = 3
    /\ nodes[1].operation = "ReadIterFactory"
    /\ nodes[2] = Node("ExternalSort", <<1>>)
    /\ nodes[3] = Node("Join", <<2, 1>>)

\* C28: _join_two_rows loses no column value: the row joined from L and R has
\* |columns(L)| + |columns(R)| - |columns(L) \cap columns(R) \cap K| columns,
\* also when a suffixed name coincides with another column of L or R.
C28_NoColumnLost ==
    \A c \in DOMAIN joiner_calls :
        LET call == joiner_calls[c]
            K == {join_keys[n] : n \in DOMAIN join_keys}
        IN  \A i \in DOMAIN call.a, j \in DOMAIN call.b :
                Len(call.emitted[(i - 1) * Len(call.b) + j]) =
                    Cardinality(Cols(call.a[i])) + Cardinality(Cols(call.b[j]))
                        - Cardinality(Cols(call.a[i]) \cap Cols(call.b[j]) \cap K)

\* the injections of 1..Len(emitted) into the rows of a group under which
\* every emitted row is the group row it is sent to
Picks(emitted, group) ==
    {f \in [DOMAIN emitted -> DOMAIN group] :
        /\ \A i, j \in DOMAIN emitted : i # j => f[i] # f[j]
        /\ \A i \in DOMAIN emitted : emitted[i] = group[f[i]]}

\* C24: for every group and every n >= 0, TopN(col, n) emits min(n, group
\* size) rows, each a row of the group used at most once, and every row of the
\* group that is not emitted has a col value no greater than that of every
\* emitted row.
C24_TopNLargest ==
    reducer.kind = "TopN" =>
        \A c \in DOMAIN reducer_calls :
            LET call == reducer_calls[c]
                size == Len(call.rows)
            IN  /\ Len(call.emitted) = IF reducer.n < size THEN reducer.n ELSE size
                /\ \E f \in Picks(call.emitted, call.rows) :
                      \A g \in DOMAIN call.rows : (\A i \in DOMAIN f : f[i] # g) =>
                          \A i \in DOMAIN call.emitted :
                              Get(call.rows[g], reducer.column)
                                  <= Get(call.emitted[i], reducer.column)

\* a group of three rows with a tie at the cut, reduced by TopN(b, 2)
C24_Witness ==
    /\ reducer = [kind |-> "TopN", column |-> "b", n |-> 2] /\ rpc = "done"
    /\ \E c \in DOMAIN reducer_calls :
          /\ reducer_calls[c].rows = <<ReduceRow(1, 1), ReduceRow(1, 2), ReduceRow(1, 1)>>
          /\ reducer_calls[c].emitted = <<ReduceRow(1, 2), ReduceRow(1, 1)>>

\* the positions at which a maximal run of contiguous key-equal rows starts
RunStarts(rs, ks) ==
    {i \in DOMAIN rs : i = 1 \/ KeyTuple(rs[i], ks) # KeyTuple(rs[i - 1], ks)}

\* the position at which the n-th run starts
RunStart(rs, ks, n) ==
    CHOOSE i \in RunStarts(rs, ks) : Cardinality({j \in RunStarts(rs, ks) : j <= i}) = n

\* C25: Reduce with FirstReducer emits one row per maximal run of contiguous
\* key-equal rows, the first row of the run; the rows of a run it does not
\* consume are skipped: they are not emitted and start no group of their own.
C25_FirstRowOfEachRun ==
    reducer.kind = "FirstReducer" =>
        /\ Len(reduce_out) = Len(reducer_calls)
        /\ Len(reducer_calls) <= Cardinality(RunStarts(reduce_rows, reduce_keys))
        /\ rpc = "done" => Len(reduce_out) = Cardinality(RunStarts(reduce_rows, reduce_keys))
        /\ \A n \in DOMAIN reduce_out :
              LET first == reduce_rows[RunStart(reduce_rows, reduce_keys, n)]
              IN  reduce_out[n] = first /\ reducer_calls[n].rows[1] = first

\* a run of two rows, of which the second is skipped, between two other runs
C25_Witness ==
    /\ reducer.kind = "FirstReducer" /\ reduce_keys = <<"a">> /\ rpc = "done"
    /\ reduce_rows = <<ReduceRow(2, 1), ReduceRow(1, 1), ReduceRow(1, 2)>>
    /\ reduce_out = <<ReduceRow(2, 1), ReduceRow(1, 1)>>

(***************************************************************************)
(* Map and the mappers (src/operations/map.py).  Cell values are strings,  *)
(* held as sequences of one-character strings so that they can be split.   *)
(***************************************************************************)
MaxMapRows == 2

\* None: the value Project stores for a column the row lacks; no text over
\* MapAlphabet equals it
PyNone == <<"None">>

MapAlphabet == {"a", "b", ",", " "}

\* the characters of MapAlphabet that the pattern \w matches
WordChars == {"a", "b"}

MapTexts ==
    { <<"a", ",", "b">>, <<"a", " ", "b">>, <<"a", " ", ",">>,
      <<",", "a">>, <<"a", "b">> }

MapRow(text, d) == <<[c |-> "text", v |-> text], [c |-> "d", v |-> d]>>

\* rows with a text column, and one row without it
MapRowValues ==
    { MapRow(t, <<"b">>) : t \in MapTexts } \cup { <<[c |-> "d", v |-> <<"a">>]>> }

MapperOf(kind, column, new_column, columns, separator) ==
    [kind |-> kind, column |-> column, new_column |-> new_column,
     columns |-> columns, separator |-> separator]

Mappers ==
    { MapperOf("DummyMapper", "", "", <<>>, <<>>),
      MapperOf("RenameColumn", "text", "word", <<>>, <<>>) }
    \cup { MapperOf("Split", "text", "", <<>>, sep) :
             sep \in {PyNone, <<",">>, <<" ">>, <<"b">>} }
    \cup { MapperOf("Project", "", "", cols, <<>>) :
             cols \in { <<>>, <<"d", "text">>, <<"text", "z">>,
                        <<"d", "z", "d">> } }

\* re.compile(r'\W+').split(s): the pieces of s between maximal runs of
\* non-word characters; a run at either end leaves an empty piece there
RECURSIVE RegexSplitFrom(_, _, _, _)
RegexSplitFrom(s, i, word, words) ==
    IF i > Len(s) THEN Append(words, word)
    ELSE IF s[i] \in WordChars
         THEN RegexSplitFrom(s, i + 1, Append(word, s[i]), words)
    ELSE IF i > 1 /\ s[i - 1] \notin WordChars
         THEN RegexSplitFrom(s, i + 1, word, words)
    ELSE RegexSplitFrom(s, i + 1, <<>>, Append(words, word))

RegexSplit(s) == RegexSplitFrom(s, 1, <<>>, <<>>)

\* the mapper's call raises KeyError: row[self.column] on a row without it
MapperRaises(mp, row) ==
    /\ mp.kind \in {"Split", "RenameColumn"}
    /\ ~HasCol(row, mp.column)

RenameColumn(column, new_column, row) ==
    LET new_row == SelectSeq(row, LAMBDA cell : cell.c # column)
    IN  <<Put(new_row, new_column, Get(row, column))>>

\* self.separator is stored and never read
Split(column, separator, row) ==
    LET words == RegexSplit(Get(row, column))
    IN  [j \in 1..Len(words) |-> Put(row, column, words[j])]

RECURSIVE ProjectFrom(_, _, _, _)
ProjectFrom(columns, row, j, new_row) ==
    IF j > Len(columns) THEN new_row
    ELSE ProjectFrom(columns, row, j + 1,
                     Put(new_row, columns[j],
                         IF HasCol(row, columns[j]) THEN Get(row, columns[j])
                         ELSE PyNone))

Project_SkipsMissing(columns, row) ==
    <<ProjectFrom(SelectSeq(columns, LAMBDA col : HasCol(row, col)), row, 1, <<>>)>>

Project(columns, row) == <<ProjectFrom(columns, row, 1, <<>>)>>

\* self.mapper(row), run to its end: the rows it yields
MapperCall(mp, row) ==
    CASE mp.kind = "DummyMapper"  -> DummyMapper(row)
      [] mp.kind = "RenameColumn" -> RenameColumn(mp.column, mp.new_column, row)
      [] mp.kind = "Split"        -> Split(mp.column, mp.separator, row)
      [] mp.kind = "Project"      -> Project(mp.columns, row)

\* One next() of the consumer on the generator Map.__call__(rows): the rest of
\* the running mapper call first, else the next input row and its mapper call
MapNext_YieldsPastError(mp, rs, pos, buf) ==
    IF buf # <<>>
    THEN [kind |-> "yield", row |-> Head(buf), pos |-> pos, buf |-> Tail(buf)]
    ELSE IF pos = Len(rs)
    THEN [kind |-> "return", row |-> <<>>, pos |-> pos, buf |-> <<>>]
    ELSE IF MapperRaises(mp, rs[pos + 1])
    THEN [kind |-> "yield", row |-> rs[pos + 1], pos |-> pos + 1, buf |-> <<>>]
    ELSE [kind |-> "yield", row |-> Head(MapperCall(mp, rs[pos + 1])),
          pos |-> pos + 1, buf |-> Tail(MapperCall(mp, rs[pos + 1]))]

MapNext(mp, rs, pos, buf) ==
    IF buf # <<>>
    THEN [kind |-> "yield", row |-> Head(buf), pos |-> pos, buf |-> Tail(buf)]
    ELSE IF pos = Len(rs)
    THEN [kind |-> "return", row |-> <<>>, pos |-> pos, buf |-> <<>>]
    ELSE IF MapperRaises(mp, rs[pos + 1])
    THEN [kind |-> "raise", row |-> <<>>, pos |-> pos + 1, buf |-> <<>>]
    ELSE [kind |-> "yield", row |-> Head(MapperCall(mp, rs[pos + 1])),
          pos |-> pos + 1, buf |-> Tail(MapperCall(mp, rs[pos + 1]))]

MapInit ==
    /\ map_rows \in SeqsUpTo(MapRowValues, MaxMapRows)
    /\ mapper \in Mappers
    /\ mpc = "unstarted" /\ map_pos = 0 /\ map_buf = <<>> /\ map_out = <<>>

MapLive == mpc \in {"unstarted", "running"}

\* next() delivers a row
MapYield ==
    /\ MapLive
    /\ LET step == MapNext(mapper, map_rows, map_pos, map_buf) IN
       /\ step.kind = "yield"
       /\ mpc' = "running"
       /\ map_pos' = step.pos /\ map_buf' = step.buf
       /\ map_out' = Append(map_out, step.row)
    /\ UNCHANGED <<map_rows, mapper, sortVars, joinVars, reduceVars, graphVars, callVars>>

\* next() raises the mapper's KeyError; the generator is finished
MapRaise ==
    /\ MapLive
    /\ LET step == MapNext(mapper, map_rows, map_pos, map_buf) IN
       /\ step.kind = "raise"
       /\ mpc' = "raised"
       /\ map_pos' = step.pos /\ map_buf' = step.buf
    /\ UNCHANGED <<map_rows, mapper, map_out, sortVars, joinVars, reduceVars, graphVars, callVars>>

\* next() raises StopIteration: the input is exhausted
MapReturn ==
    /\ MapLive
    /\ LET step == MapNext(mapper, map_rows, map_pos, map_buf) IN
       /\ step.kind = "return"
       /\ mpc' = "done"
       /\ map_pos' = step.pos /\ map_buf' = step.buf
    /\ UNCHANGED <<map_rows, mapper, map_out, sortVars, joinVars, reduceVars, graphVars, callVars>>

MapSpecNext == MapYield \/ MapRaise \/ MapReturn

MapSpecInit == MapInit /\ SortIdle /\ JoinIdle /\ ReduceIdle /\ GraphIdle /\ CallIdle

MapSpec == MapSpecInit /\ [][MapSpecNext]_vars

\* C22: when the mapper's column is absent from an input row, the consumer
\* receives exactly the rs made from the input rs before the first such
\* row, then the error on the pull that reaches that row, and nothing made
\* from that row or a later one
FirstBadRow ==
    IF \E i \in DOMAIN map_rows : MapperRaises(mapper, map_rows[i])
    THEN CHOOSE i \in DOMAIN map_rows :
            /\ MapperRaises(mapper, map_rows[i])
            /\ \A j \in 1..(i - 1) : ~MapperRaises(mapper, map_rows[j])
    ELSE 0

RECURSIVE RowsMadeFrom(_, _)
RowsMadeFrom(rs, n) ==
    IF n = 0 THEN <<>>
    ELSE RowsMadeFrom(rs, n - 1) \o MapperCall(mapper, rs[n])

C22_ErrorAtOffendingRow ==
    FirstBadRow > 0 =>
        /\ IsPrefix(map_out, RowsMadeFrom(map_rows, FirstBadRow - 1))
        /\ mpc # "done"
        /\ map_pos <= FirstBadRow
        /\ map_pos = FirstBadRow <=> mpc = "raised"
        /\ mpc = "raised" => map_out = RowsMadeFrom(map_rows, FirstBadRow - 1)

C22_Witness ==
    /\ mapper.kind = "Split" /\ mpc = "raised"
    /\ Len(map_rows) = 2 /\ FirstBadRow = 2
    /\ Len(map_out) = 2

\* the listed columns in the listed order, a column listed again counted once
RECURSIVE FirstListing(_)
FirstListing(columns) ==
    IF columns = <<>> THEN <<>>
    ELSE LET before == FirstListing(SubSeq(columns, 1, Len(columns) - 1))
             col == columns[Len(columns)]
         IN  IF \E i \in DOMAIN before : before[i] = col THEN before
             ELSE Append(before, col)

\* C26: Project(cols) emits exactly one row per input row; its columns are the
\* listed columns in the listed order, each holding the input row's value, or
\* None when the input row lacks the column; projecting the emitted row again
\* gives the same row
C26_ProjectExactColumns ==
    mapper.kind = "Project" =>
        /\ Len(map_out) = map_pos /\ map_buf = <<>>
        /\ \A j \in DOMAIN map_out :
            LET given == map_rows[j]
                emitted == map_out[j]
            IN  /\ [i \in DOMAIN emitted |-> emitted[i].c] = FirstListing(mapper.columns)
                /\ \A i \in DOMAIN emitted :
                      emitted[i].v = IF HasCol(given, emitted[i].c) THEN Get(given, emitted[i].c)
                                 ELSE PyNone
                /\ MapperCall(mapper, emitted) = <<emitted>>

C26_Witness ==
    /\ mapper.kind = "Project" /\ mapper.columns = <<"d", "z", "d">>
    /\ mpc = "done" /\ Len(map_rows) = 2
    /\ map_out[1] = <<[c |-> "d", v |-> <<"b">>], [c |-> "z", v |-> PyNone]>>

\* s.split(separator) for a non-empty separator
RECURSIVE StrSplitFrom(_, _, _, _, _)
StrSplitFrom(s, separator, i, word, words) ==
    IF i > Len(s) THEN Append(words, word)
    ELSE IF /\ i + Len(separator) - 1 <= Len(s)
            /\ SubSeq(s, i, i + Len(separator) - 1) = separator
         THEN StrSplitFrom(s, separator, i + Len(separator), <<>>, Append(words, word))
    ELSE StrSplitFrom(s, separator, i + 1, Append(word, s[i]), words)

\* the tokens of s: cut at the separator when one was given, else at the runs
\* of non-word characters
TokensBy(separator, s) ==
    IF separator = PyNone THEN RegexSplit(s)
    ELSE StrSplitFrom(s, separator, 1, <<>>, <<>>)

RECURSIVE SplitRowsBy(_, _, _, _)
SplitRowsBy(column, separator, rs, n) ==
    IF n = 0 THEN <<>>
    ELSE LET words == TokensBy(separator, Get(rs[n], column))
         IN  SplitRowsBy(column, separator, rs, n - 1)
                 \o [j \in 1..Len(words) |-> Put(rs[n], column, words[j])]

\* C27: the rows delivered by Split(col, sep) are, for each input row in
\* order, one row per token of the column's value with the column replaced by
\* the token and the other columns unchanged; the tokens are cut at sep when
\* sep was given and at the regular expression only when it was not
C27_SplitBySeparator ==
    mapper.kind = "Split" =>
        LET good == IF FirstBadRow > 0 THEN FirstBadRow - 1 ELSE Len(map_rows)
        IN  /\ IsPrefix(map_out, SplitRowsBy(mapper.column, mapper.separator, map_rows, good))
            /\ mpc \in {"done", "raised"} =>
                  map_out = SplitRowsBy(mapper.column, mapper.separator, map_rows, good)

(***************************************************************************)
(* One call of a Joiner on a key present on both sides, row by row         *)
(* (src/operations/join.py).  Both groups come from groupby, which holds   *)
(* the first row of a group when it hands the group out and pulls each     *)
(* later row from its input when the group is advanced.                    *)
(***************************************************************************)
CallKeys == <<"k">>

CallGroups == SeqsUpTo({JoinRow(1, x) : x \in 1..2}, MaxJoinRows) \ {<<>>}

\* the groups a joiner copies with list() before its loops start; the other
\* group is the iterable of the outer loop and is advanced row by row
BufferedSides(kind) ==
    CASE kind = "inner" -> {"b"}
      [] kind = "outer" -> {"a", "b"}
      [] kind = "left"  -> {"b"}
      [] kind = "right" -> {"a"}

\* RightJoiner runs its outer loop over the right group
OuterSide(kind) == IF kind = "right" THEN "b" ELSE "a"

OuterGroup == IF OuterSide(call_joiner) = "a" THEN group_a ELSE group_b
InnerGroup == IF OuterSide(call_joiner) = "a" THEN group_b ELSE group_a

\* the yield of _join_two_rows inside the two loops
CallYield(o, i) ==
    [ia |-> IF OuterSide(call_joiner) = "a" THEN o ELSE i,
     ib |-> IF OuterSide(call_joiner) = "a" THEN i ELSE o,
     pulled_a |-> pulled_a', pulled_b |-> pulled_b',
     row |-> JoinTwoRows(CallKeys, OuterGroup[o], InnerGroup[i], a_suffix, b_suffix)]

CallInit ==
    /\ call_joiner \in JoinerKinds
    /\ group_a \in CallGroups /\ group_b \in CallGroups
    /\ cpc = "unstarted"
    /\ pulled_a = 1 /\ pulled_b = 1
    /\ at_outer = 0 /\ at_inner = 0 /\ call_out = <<>>

\* first next(): the list() calls, the first row of the outer loop, a yield
JoinerFirstYield ==
    /\ cpc = "unstarted"
    /\ cpc' = "running"
    /\ pulled_a' = IF "a" \in BufferedSides(call_joiner) THEN Len(group_a) ELSE pulled_a
    /\ pulled_b' = IF "b" \in BufferedSides(call_joiner) THEN Len(group_b) ELSE pulled_b
    /\ at_outer' = 1 /\ at_inner' = 1
    /\ call_out' = Append(call_out, CallYield(1, 1))
    /\ UNCHANGED <<call_joiner, group_a, group_b, sortVars, joinVars, reduceVars,
                   graphVars, mapVars>>

\* next(): the inner loop moves on
JoinerInnerYield ==
    /\ cpc = "running" /\ at_inner < Len(InnerGroup)
    /\ at_inner' = at_inner + 1
    /\ UNCHANGED <<pulled_a, pulled_b>>
    /\ call_out' = Append(call_out, CallYield(at_outer, at_inner + 1))
    /\ UNCHANGED <<call_joiner, group_a, group_b, cpc, at_outer, sortVars, joinVars,
                   reduceVars, graphVars, mapVars>>

\* next(): the inner loop ended, the outer loop takes its next row
JoinerOuterYield ==
    /\ cpc = "running" /\ at_inner = Len(InnerGroup) /\ at_outer < Len(OuterGroup)
    /\ at_outer' = at_outer + 1 /\ at_inner' = 1
    /\ pulled_a' = IF OuterSide(call_joiner) = "a" /\ "a" \notin BufferedSides(call_joiner)
                   THEN pulled_a + 1 ELSE pulled_a
    /\ pulled_b' = IF OuterSide(call_joiner) = "b" /\ "b" \notin BufferedSides(call_joiner)
                   THEN pulled_b + 1 ELSE pulled_b
    /\ call_out' = Append(call_out, CallYield(at_outer + 1, 1))
    /\ UNCHANGED <<call_joiner, group_a, group_b, cpc, sortVars, joinVars,
                   reduceVars, graphVars, mapVars>>

\* next(): both loops ended
JoinerReturn ==
    /\ cpc = "running" /\ at_inner = Len(InnerGroup) /\ at_outer = Len(OuterGroup)
    /\ cpc' = "done"
    /\ UNCHANGED <<call_joiner, group_a, group_b, pulled_a, pulled_b, at_outer,
                   at_inner, call_out, sortVars, joinVars, reduceVars, graphVars,
                   mapVars>>

JoinerSpecNext ==
    \/ JoinerFirstYield
    \/ JoinerInnerYield
    \/ JoinerOuterYield
    \/ JoinerReturn

JoinerSpecInit ==
    CallInit /\ SortIdle /\ JoinIdle /\ ReduceIdle /\ GraphIdle /\ MapIdle

JoinerSpec == JoinerSpecInit /\ [][JoinerSpecNext]_vars

\* C23: for every joiner, on a key present on both sides, the right group is
\* pulled in full before the first row is emitted, and the left group is
\* streamed: a row made from the n-th left row is emitted when exactly n left
\* rows were pulled, and a left row is pulled only after every pair of the
\* rows before it was emitted
PairsOfLeftRow(n) == {j \in DOMAIN call_out : call_out[j].ia = n}

C23_LeftGroupStreams ==
    /\ \A j \in DOMAIN call_out :
          /\ call_out[j].pulled_b = Len(group_b)
          /\ call_out[j].pulled_a = call_out[j].ia
    /\ \A n \in 1..(pulled_a - 1) :
          Cardinality(PairsOfLeftRow(n)) = Len(group_b)
====
